---- MODULE Spec2Model ----
(***************************************************************************)
(* Model of the two cross-cutting mechanisms of ynab.go: the rolling-window *)
(* RateLimitTracker (api/ratelimit.go) and the OAuth token lifecycle        *)
(* (oauth/token.go, the OAuth client and the unified client).               *)
(*                                                                          *)
(* Time is a discrete clock `now`; every time.Now() of the source is a read *)
(* of `now` in the step that executes it, and the clock may advance between *)
(* any two steps.  Goroutines are the elements of Threads; each one runs    *)
(* one call at a time, its position is th[t].pc.                            *)
(***************************************************************************)
EXTENDS Integers, Sequences, FiniteSets, TLC

\* ------------------------------------------------------------------ bounds
MaxClock == 3
MaxRecords == 2
MaxLimit == 2
MaxWindow == 2
MaxCalls == 2
MaxElapse == 1

Threads == {"g1", "g2"}
NoThread == "none"

VARIABLES
  now,        \* the wall clock read by time.Now()
  requests,   \* RateLimitTracker.requests
  rlMutex,    \* RateLimitTracker.mutex: [w: holder of the write lock, r: set of readers]
  limit,      \* RateLimitTracker.limit
  window,     \* RateLimitTracker.window
  hist,       \* history: timestamps of every RecordRequest since the last Reset
  th,         \* per goroutine: pc, running operation, locals, result
  token,      \* TokenManager.token
  mu,         \* TokenManager.mu
  hasStorage, \* TokenManager.storage != nil
  stored,     \* the token held by the TokenStorage
  hasCallback,\* TokenManager.onTokenRefresh != nil
  clientKind, \* which client issues the API calls
  configOk,   \* Config.Validate() == nil
  storages,   \* ChainedStorage.storages: the token each member holds
  nExch,      \* history: token-endpoint exchanges sent so far
  nCalls,     \* history: calls started on the manager and the clients
  okCalls     \* history: client calls that returned nil

rlVars == <<requests, rlMutex, limit, window, hist>>
tmVars == <<token, mu, hasStorage, stored, hasCallback, clientKind, configOk, storages, nExch, nCalls, okCalls>>
tmConfig == <<hasStorage, hasCallback, clientKind, configOk, storages>>
vars == <<now, requests, rlMutex, limit, window, hist, th, token, mu, hasStorage,
          stored, hasCallback, clientKind, configOk, storages, nExch, nCalls, okCalls>>

\* ------------------------------------------------------------- time.Time
Before(a, b) == a < b
After(a, b) == a > b

SeqMin(S) == CHOOSE x \in S : \A y \in S : x <= y

\* --------------------------------------------------------- sync.RWMutex
\* faulty variant: Lock does not wait for the holder of the write lock
CanLock_IgnoresWriter(m) == m.r = {}

CanLock(m) == m.w = NoThread /\ m.r = {}
CanRLock(m) == m.w = NoThread
Lock(m, t) == [m EXCEPT !.w = t]
Unlock(m) == [m EXCEPT !.w = NoThread]
RLock(m, t) == [m EXCEPT !.r = @ \cup {t}]
RUnlock(m, t) == [m EXCEPT !.r = @ \ {t}]

\* ------------------------------------------------------ RateLimitTracker
\* faulty variant: needsCleanup without the Equal(cutoff) case
needsCleanup_StrictBefore(reqs, t, w) ==
  IF Len(reqs) = 0 THEN FALSE
  ELSE LET cutoff == t - w
       IN  Before(reqs[1], cutoff)

\* needsCleanup: the oldest entry is at or before the cutoff
needsCleanup(reqs, t, w) ==
  IF Len(reqs) = 0 THEN FALSE
  ELSE LET cutoff == t - w
       IN  Before(reqs[1], cutoff) \/ reqs[1] = cutoff

\* faulty variant: cleanup keeps the entry whose timestamp equals the cutoff
cleanup_KeepsCutoff(reqs, t, w) ==
  LET cutoff == t - w
      keep == {i \in 1..Len(reqs) : reqs[i] >= cutoff}
  IN  IF keep = {} THEN SubSeq(reqs, 1, 0)
      ELSE SubSeq(reqs, SeqMin(keep), Len(reqs))

\* cleanup: keep the entries from the first one that is after the cutoff
cleanup(reqs, t, w) ==
  LET cutoff == t - w
      keep == {i \in 1..Len(reqs) : After(reqs[i], cutoff)}
  IN  IF keep = {} THEN SubSeq(reqs, 1, 0)
      ELSE SubSeq(reqs, SeqMin(keep), Len(reqs))

\* faulty variant: RequestsRemaining without the clamp at 0
RequestsRemaining_NoClamp(count, lim) == lim - count

\* RequestsRemaining: limit - count, clamped at 0
RequestsRemaining(count, lim) ==
  LET remaining == lim - count
  IN  IF remaining < 0 THEN 0 ELSE remaining

\* IsAtLimit: count >= limit
IsAtLimit(count, lim) == count >= lim

\* the value a counting call returns for the count it obtained
\* (booleans are returned as 1 / 0)
CountResult(o, count, lim) ==
  CASE o = "RequestsInWindow" -> count
    [] o = "RequestsRemaining" -> RequestsRemaining(count, lim)
    [] o = "IsAtLimit" -> IF IsAtLimit(count, lim) THEN 1 ELSE 0

CountOps == {"RequestsInWindow", "RequestsRemaining", "IsAtLimit"}

\* history: number of recorded requests inside the window ending at time t
InWindow(h, t, w) == Cardinality({i \in DOMAIN h : h[i] > t - w})

\* ------------------------------------------------------------ goroutines
NilToken == [nil |-> TRUE, access |-> "", refresh |-> "", expSet |-> FALSE,
             expiresAt |-> 0]

NoErr == [kind |-> "nil", id |-> "", status |-> 0]

\* callback URLs: ok is url.Parse succeeding; error, code and state are query
\* parameters; frag tells whether the fragment is absent, unparsable or
\* parsed, and atoken, fexp, fstate, frefresh are its access_token, expires_in,
\* state and refresh_token; qtoken is an access_token in the query string
NoURL == [ok |-> FALSE, error |-> "", code |-> "", state |-> "", qtoken |-> "",
          frag |-> "none", atoken |-> "", fexp |-> "", fstate |-> "", frefresh |-> ""]

\* no token-endpoint response read yet
NoResponse == [kind |-> "none", error |-> "", access |-> "", refresh |-> "", expiresIn |-> 0]

Idle == [pc |-> "idle", op |-> "none", val |-> 0, exp |-> 0, tmp |-> 0,
         buf |-> <<>>, n |-> 0,
         stage |-> "", cur |-> NilToken, err |-> "", cause |-> "", xid |-> 0,
         sent |-> "", nex |-> 0, ncb |-> 0, cbok |-> TRUE, cbtok |-> NilToken,
         xok |-> FALSE, sok |-> FALSE,
         nreq |-> 0, used |-> <<>>, first |-> NoErr, second |-> NoErr, out |-> NoErr,
         nex0 |-> 0, http |-> 0,
         tok0 |-> NilToken, st0 |-> NilToken, nld |-> 0, lok |-> FALSE, tchk |-> 0,
         flow |-> "", cb |-> NoURL, want |-> "", resp |-> NoResponse, ecode |-> "",
         rdone |-> FALSE, rerr |-> "", rtok |-> NilToken, rvalid |-> FALSE,
         prev |-> <<>>, fail |-> <<>>, clr |-> FALSE, tcall |-> 0]

Goto(t, label) == [th EXCEPT ![t].pc = label]

\* a call returns: the goroutine is free for the next call
Return(t) ==
  /\ th[t].pc = "done"
  /\ th' = [th EXCEPT ![t] = Idle]
  /\ UNCHANGED <<now, rlVars, tmVars>>

\* time passes
Tick ==
  /\ now < MaxClock
  /\ now' = now + 1
  /\ UNCHANGED <<rlVars, th, tmVars>>

\* RecordRequest: Lock, load r.requests for the append
RecordRequestLock(t, from) ==
  /\ th[t].pc = from
  /\ CanLock(rlMutex)
  /\ rlMutex' = Lock(rlMutex, t)
  /\ th' = [th EXCEPT ![t].pc = "rr_append", ![t].buf = requests,
                      ![t].op = IF from = "idle" THEN "RecordRequest" ELSE @]
  /\ UNCHANGED <<now, requests, limit, window, hist, tmVars>>

\* RecordRequest called on the tracker directly
RecordRequest(t) ==
  /\ Len(hist) + Cardinality({u \in Threads : th[u].pc = "rr_append"}) < MaxRecords
  /\ RecordRequestLock(t, "idle")

\* RecordRequest: r.requests = append(loaded, time.Now())
RecordRequestAppend(t) ==
  /\ th[t].pc = "rr_append"
  /\ requests' = Append(th[t].buf, now)
  /\ hist' = Append(hist, now)
  /\ th' = [th EXCEPT ![t].pc = "rr_cleanup", ![t].buf = <<>>]
  /\ UNCHANGED <<now, rlMutex, limit, window, tmVars>>

\* RecordRequest: cleanup(), deferred Unlock
RecordRequestCleanup(t) ==
  /\ th[t].pc = "rr_cleanup"
  /\ requests' = cleanup(requests, now, window)
  /\ rlMutex' = Unlock(rlMutex)
  /\ th' = Goto(t, IF th[t].op = "RecordRequest" THEN "done" ELSE "do_ret")
  /\ UNCHANGED <<now, limit, window, hist, tmVars>>

\* RequestsInWindow (also as called by RequestsRemaining and IsAtLimit):
\* RLock, needsCleanup() is false, read len, RUnlock
CountRead(t, o) ==
  /\ th[t].pc = "idle"
  /\ CanRLock(rlMutex)
  /\ ~needsCleanup(requests, now, window)
  /\ th' = [th EXCEPT ![t].pc = "done", ![t].op = o,
                      ![t].val = CountResult(o, Len(requests), limit),
                      ![t].exp = InWindow(hist, now, window),
                      ![t].n = Len(hist)]
  /\ UNCHANGED <<now, rlVars, tmVars>>

\* RequestsInWindow: RLock, needsCleanup() is true, RUnlock
CountStale(t, o) ==
  /\ th[t].pc = "idle"
  /\ CanRLock(rlMutex)
  /\ needsCleanup(requests, now, window)
  /\ th' = [th EXCEPT ![t].pc = "riw_lock", ![t].op = o]
  /\ UNCHANGED <<now, rlVars, tmVars>>

\* RequestsInWindow: Lock, cleanup(), read len, Unlock
CountCleanup(t) ==
  /\ th[t].pc = "riw_lock"
  /\ CanLock(rlMutex)
  /\ requests' = cleanup(requests, now, window)
  /\ th' = [th EXCEPT ![t].pc = "done",
                      ![t].val = CountResult(th[t].op, Len(requests'), limit),
                      ![t].exp = InWindow(hist, now, window),
                      ![t].n = Len(hist)]
  /\ UNCHANGED <<now, rlMutex, limit, window, hist, tmVars>>

\* Reset: Lock, truncate, Unlock
Reset(t) ==
  /\ th[t].pc = "idle"
  /\ CanLock(rlMutex)
  /\ requests' = SubSeq(requests, 1, 0)
  /\ hist' = <<>>
  /\ th' = [th EXCEPT ![t].pc = "done", ![t].op = "Reset"]
  /\ UNCHANGED <<now, rlMutex, limit, window, tmVars>>

\* the lock TimeUntilReset holds is released by its deferred (R)Unlock
Release(m, t) == IF m.w = t THEN Unlock(m) ELSE RUnlock(m, t)

\* history: time until the oldest request still inside the window leaves it
UntilReset(h, t, w) ==
  LET inw == {h[i] : i \in {j \in DOMAIN h : h[j] > t - w}}
  IN  IF inw = {} THEN 0 ELSE SeqMin(inw) + w - t

\* TimeUntilReset: RLock, needsCleanup() is false, defer RUnlock
TimeUntilResetRead(t) ==
  /\ th[t].pc = "idle"
  /\ CanRLock(rlMutex)
  /\ ~needsCleanup(requests, now, window)
  /\ rlMutex' = RLock(rlMutex, t)
  /\ th' = [th EXCEPT ![t].pc = "tur_body", ![t].op = "TimeUntilReset",
                      ![t].tcall = now]
  /\ UNCHANGED <<now, requests, limit, window, hist, tmVars>>

\* TimeUntilReset: RLock, needsCleanup() is true, RUnlock
TimeUntilResetStale(t) ==
  /\ th[t].pc = "idle"
  /\ CanRLock(rlMutex)
  /\ needsCleanup(requests, now, window)
  /\ th' = [th EXCEPT ![t].pc = "tur_lock", ![t].op = "TimeUntilReset",
                      ![t].tcall = now]
  /\ UNCHANGED <<now, rlVars, tmVars>>

\* TimeUntilReset: Lock, cleanup(), defer Unlock
TimeUntilResetCleanup(t) ==
  /\ th[t].pc = "tur_lock"
  /\ CanLock(rlMutex)
  /\ rlMutex' = Lock(rlMutex, t)
  /\ requests' = cleanup(requests, now, window)
  /\ th' = Goto(t, "tur_body")
  /\ UNCHANGED <<now, limit, window, hist, tmVars>>

\* TimeUntilReset: empty check, resetTime, resetTime.Before(time.Now())
TimeUntilResetBody(t) ==
  /\ th[t].pc = "tur_body"
  /\ LET resetTime == requests[1] + window
     IN  IF Len(requests) = 0 \/ Before(resetTime, now)
           THEN /\ th' = [th EXCEPT ![t].pc = "done", ![t].val = 0,
                                    ![t].exp = UntilReset(hist, now, window),
                                    ![t].n = Len(hist), ![t].tchk = now,
                                    ![t].buf = hist]
                /\ rlMutex' = Release(rlMutex, t)
           ELSE /\ th' = [th EXCEPT ![t].pc = "tur_until", ![t].tmp = resetTime]
                /\ UNCHANGED rlMutex
  /\ UNCHANGED <<now, requests, limit, window, hist, tmVars>>

\* TimeUntilReset: return time.Until(resetTime)
TimeUntilResetUntil(t) ==
  /\ th[t].pc = "tur_until"
  /\ th' = [th EXCEPT ![t].pc = "done", ![t].val = th[t].tmp - now, ![t].tmp = 0,
                      ![t].exp = UntilReset(hist, now, window),
                      ![t].n = Len(hist), ![t].tchk = now,
                                    ![t].buf = hist]
  /\ rlMutex' = Release(rlMutex, t)
  /\ UNCHANGED <<now, requests, limit, window, hist, tmVars>>

\* ------------------------------------------- the tracker on its own
InitRL ==
  /\ now = 0
  /\ requests = <<>>
  /\ rlMutex = [w |-> NoThread, r |-> {}]
  /\ limit \in 1..MaxLimit
  /\ window \in 1..MaxWindow
  /\ hist = <<>>
  /\ th = [t \in Threads |-> Idle]
  /\ token = NilToken
  /\ mu = [w |-> NoThread, r |-> {}]
  /\ hasStorage = FALSE
  /\ stored = NilToken
  /\ hasCallback = FALSE
  /\ clientKind = "none"
  /\ configOk = TRUE
  /\ storages = <<>>
  /\ nExch = 0
  /\ nCalls = 0
  /\ okCalls = 0

NextRL ==
  \/ Tick
  \/ \E t \in Threads :
       \/ RecordRequest(t)
       \/ RecordRequestAppend(t)
       \/ RecordRequestCleanup(t)
       \/ \E o \in CountOps : CountRead(t, o)
       \/ \E o \in CountOps : CountStale(t, o)
       \/ CountCleanup(t)
       \/ TimeUntilResetRead(t)
       \/ TimeUntilResetStale(t)
       \/ TimeUntilResetCleanup(t)
       \/ TimeUntilResetBody(t)
       \/ TimeUntilResetUntil(t)
       \/ Reset(t)
       \/ Return(t)

SpecRL == InitRL /\ [][NextRL]_vars

TypeOKRL ==
  /\ now \in 0..MaxClock
  /\ Len(requests) <= MaxRecords
  /\ rlMutex.w \in Threads \cup {NoThread}
  /\ rlMutex.r \subseteq Threads

\* ---------------------------------------------- claims on the tracker
Max(a, b) == IF a >= b THEN a ELSE b

Returned(t, o) == th[t].pc = "done" /\ th[t].op = o

Quiescent == \A t \in Threads : th[t].pc \in {"idle", "done"}

\* RequestsInWindow run without interruption at time t on the stored sequence
RequestsInWindowAt(reqs, t, w) ==
  IF needsCleanup(reqs, t, w) THEN Len(cleanup(reqs, t, w)) ELSE Len(reqs)

IsSorted(q) == \A i, j \in DOMAIN q : i <= j => q[i] <= q[j]

IsSuffix(q, h) == Len(q) <= Len(h) /\ q = SubSeq(h, Len(h) - Len(q) + 1, Len(h))

\* C6: every RequestsInWindow returns exactly the number of recorded requests
\* whose timestamp is inside the window ending at the clock reading it used;
\* whenever the read path is taken no stored entry is older than the window;
\* the stored sequence is in non-decreasing time order and is what a prefix
\* trim leaves of the recorded history.
C6_RollingWindow ==
  /\ \A t \in Threads : Returned(t, "RequestsInWindow") => th[t].val = th[t].exp
  /\ (CanRLock(rlMutex) /\ ~needsCleanup(requests, now, window))
        => \A i \in DOMAIN requests : requests[i] > now - window
  /\ IsSorted(requests)
  /\ (\A t \in Threads : th[t].pc # "rr_append") => IsSuffix(requests, hist)

\* C6 witness: a RequestsInWindow that evicted part of the history returned
C6_Witness ==
  \E t \in Threads : /\ Returned(t, "RequestsInWindow")
                     /\ th[t].val >= 1
                     /\ th[t].val < Len(hist)

\* C7: RequestsRemaining returns max(0, L - n) and IsAtLimit returns n >= L,
\* n being the number of recorded requests inside the window; so with L or
\* more requests in the window remaining is 0 (never negative) and IsAtLimit
\* is true.
C7_RemainingAndLimit ==
  \A t \in Threads :
    /\ Returned(t, "RequestsRemaining")
         => /\ th[t].val = Max(0, limit - th[t].exp)
            /\ th[t].val >= 0
            /\ (th[t].exp >= limit => th[t].val = 0)
    /\ Returned(t, "IsAtLimit") => ((th[t].val = 1) <=> (th[t].exp >= limit))

\* C7 witness: RequestsRemaining returned with more than L requests in the window
C7_Witness ==
  \E t \in Threads : /\ Returned(t, "RequestsRemaining")
                     /\ th[t].exp > limit
                     /\ th[t].val = 0

\* the tracker holds exactly L recorded requests, all inside the window, no
\* call is running on it, and the next clock reading is the one at which the
\* oldest of them is one window old
OldestAgesOut ==
  /\ Quiescent
  /\ CanLock(rlMutex)
  /\ Len(hist) = limit
  /\ InWindow(hist, now, window) = limit
  /\ now' = now + 1
  /\ hist[1] + window = now'
  /\ UNCHANGED <<rlVars, th>>

RemainingAt(t) == RequestsRemaining(RequestsInWindowAt(requests, t, window), limit)

\* C8 as stated: when the oldest of L recorded requests ages past the window,
\* RequestsRemaining() increases by exactly 1.
C8_Original ==
  [][OldestAgesOut => RemainingAt(now') = RemainingAt(now) + 1]_vars

\* C8 amended: RequestsRemaining() increases by exactly the number of recorded
\* requests that carry the oldest timestamp, which is 1 when the oldest
\* request is strictly older than the next one.
C8_AgesOut ==
  [][OldestAgesOut =>
       /\ RemainingAt(now') = RemainingAt(now)
                              + Cardinality({i \in DOMAIN hist : hist[i] = hist[1]})
       /\ (Len(hist) >= 2 /\ hist[1] < hist[2]
             => RemainingAt(now') = RemainingAt(now) + 1)]_vars

\* C8 witness: the oldest of L >= 2 requests, strictly older than the next,
\* has just aged out of the window
C8_Witness ==
  /\ Quiescent
  /\ CanLock(rlMutex)
  /\ Len(hist) = limit
  /\ limit >= 2
  /\ hist[1] < hist[2]
  /\ hist[1] + window = now
  /\ requests = hist

\* C9 as stated: TimeUntilReset() returns 0 when no request is recorded and
\* always a value in [0, window].
C9_TimeUntilReset ==
  \A t \in Threads :
    Returned(t, "TimeUntilReset")
      => /\ th[t].val >= 0
         /\ th[t].val <= window
         /\ (th[t].n = 0 => th[t].val = 0)

\* C10: once all calls have returned and every recorded timestamp is still
\* inside the window, RequestsInWindow() equals the number of RecordRequest
\* calls.
C10_NoLostRequest ==
  (Quiescent /\ InWindow(hist, now, window) = Len(hist))
    => /\ Len(requests) = Len(hist)
       /\ RequestsInWindowAt(requests, now, window) = Len(hist)

\* C10 witness: several requests recorded, all calls returned, all in the window
C10_Witness ==
  /\ Quiescent
  /\ Len(hist) >= 2
  /\ InWindow(hist, now, window) = Len(hist)
  /\ Len(requests) = Len(hist)

\* ======================================================== OAuth tokens
\* With tokens in use one clock unit is one second.
Buffer == 300
DefaultExpiresIn == 7200
YNABLimit == 200
Hour == 3600

\* ----------------------------------------------------------------- Token
\* faulty variant: IsExpired without the IsZero test (the zero time is past)
IsExpired_ZeroIsPast(tok, t) ==
  IF ~tok.expSet THEN TRUE ELSE After(t + Buffer, tok.expiresAt)

\* faulty variant: IsExpired without the buffer
IsExpired_NoBuffer(tok, t) ==
  IF ~tok.expSet THEN FALSE ELSE After(t, tok.expiresAt)

\* IsExpired: a zero ExpiresAt never expires; otherwise now+buffer is after it
IsExpired(tok, t) ==
  IF ~tok.expSet THEN FALSE ELSE After(t + Buffer, tok.expiresAt)

\* faulty variant: a token without an expiry time counts as not valid
IsValid_RequiresExpiry(tok, t) == tok.access # "" /\ tok.expSet /\ ~IsExpired(tok, t)

\* IsValid
IsValid(tok, t) == tok.access # "" /\ ~IsExpired(tok, t)

\* faulty variant: every token counts as refreshable
CanRefresh_Always(tok) == TRUE

\* CanRefresh
CanRefresh(tok) == tok.refresh # ""

\* SetExpiration
SetExpiration(tok, expiresIn, t) ==
  [tok EXCEPT !.expSet = TRUE, !.expiresAt = t + expiresIn]

\* TokenResponse.ToToken followed by the default expiration of exchangeToken:
\* ExpiresIn stays 0 unless the response carries a positive expires_in
ToToken(resp, t) ==
  LET tk == [nil |-> FALSE, access |-> resp.access, refresh |-> resp.refresh,
             expSet |-> FALSE, expiresAt |-> 0]
      expiresIn == IF resp.expiresIn > 0 THEN resp.expiresIn ELSE 0
      tk1 == IF resp.expiresIn > 0 THEN SetExpiration(tk, resp.expiresIn, t) ELSE tk
  IN  IF expiresIn = 0 THEN SetExpiration(tk1, DefaultExpiresIn, t) ELSE tk1

\* faulty variant: exchangeToken looks at access_token before the error field
exchangeError_AccessFirst(resp) ==
  CASE resp.kind = "transport" -> "token request failed"
    [] resp.kind = "badjson" -> "failed to parse token response"
    [] resp.kind = "json" /\ resp.access = "" /\ resp.error # "" -> "oauth error response"
    [] resp.kind = "json" /\ resp.access = "" /\ resp.error = ""
         -> "no access token in response"
    [] OTHER -> ""

\* exchangeToken: the error it returns for a token-endpoint response ("" = nil)
exchangeError(resp) ==
  CASE resp.kind = "transport" -> "token request failed"
    [] resp.kind = "badjson" -> "failed to parse token response"
    [] resp.kind = "json" /\ resp.error # "" -> "oauth error response"
    [] resp.kind = "json" /\ resp.error = "" /\ resp.access = ""
         -> "no access token in response"
    [] OTHER -> ""

\* exchangeToken: the ErrorCode of the *ErrorResponse it returns, if it does
exchangeErrorCode(resp) ==
  IF resp.kind = "json" /\ resp.error # "" THEN resp.error ELSE ""

\* expires_in values a token endpoint may send (0: omitted)
ExpiresInChoices == {-1, 0, Buffer - 1, Buffer}

\* the token-endpoint responses to the k-th exchange
TokenResponses(k) ==
  {[kind |-> "transport", error |-> "", access |-> "", refresh |-> "", expiresIn |-> 0],
   [kind |-> "badjson", error |-> "", access |-> "", refresh |-> "", expiresIn |-> 0]}
  \cup
  {[kind |-> "json", error |-> e, access |-> a, refresh |-> r, expiresIn |-> x] :
     e \in {"", "invalid_grant"}, a \in {"", "a" \o ToString(k)},
     r \in {"", "r" \o ToString(k)}, x \in ExpiresInChoices}

\* tokens a caller may hand to SetToken at time t
CallerTokens(t) ==
  {[nil |-> FALSE, access |-> a, refresh |-> r, expSet |-> FALSE, expiresAt |-> 0] :
     a \in {"", "a0"}, r \in {"", "r0"}}
  \cup
  {[nil |-> FALSE, access |-> "a0", refresh |-> r, expSet |-> TRUE, expiresAt |-> t + d] :
     r \in {"", "r0"}, d \in {Buffer - 1, Buffer}}

\* ---------------------------------------------------------- TokenStorage
\* faulty variant: SaveToken reports success without storing the token
SaveToken_Dropped(st, tok, ok) == st

\* SaveToken: the stored token after a save that succeeds (ok) or fails
SaveToken(st, tok, ok) == IF ok THEN tok ELSE st

\* faulty variant: the storage reports success and keeps the token
ClearStored_Keeps(st, ok) == st

\* ClearToken on the storage
ClearStored(st, ok) == IF ok THEN NilToken ELSE st

\* LoadToken succeeds only if a token is stored and the read does not fail
LoadOk(st, ok) == ok /\ ~st.nil

\* ------------------------------------------------------ Config and flows
States == {"", "S", "T"}

CallbackURLs ==
  {NoURL}
  \cup {[NoURL EXCEPT !.ok = TRUE, !.error = "access_denied", !.code = c, !.state = st] :
          c \in {"", "c1"}, st \in States}
  \cup {[NoURL EXCEPT !.ok = TRUE, !.code = "c1", !.state = st] : st \in States}
  \cup {[NoURL EXCEPT !.ok = TRUE, !.state = st, !.frag = f] :
          st \in States, f \in {"none", "bad", "parsed"}}
  \cup {[NoURL EXCEPT !.ok = TRUE, !.state = st, !.frag = "parsed", !.atoken = "tok",
                      !.fexp = x, !.fstate = fs] :
          st \in {"", "S"}, x \in {"", "3600", "60"}, fs \in {"", "T"}}
  \cup {[NoURL EXCEPT !.ok = TRUE, !.state = st, !.qtoken = "tok"] : st \in {"", "S"}}
  \cup {[NoURL EXCEPT !.ok = TRUE, !.state = "S", !.frag = "parsed", !.atoken = "tok",
                      !.frefresh = "rf"]}

\* parseExpiresIn: "3600" is one hour, anything else two hours
parseExpiresIn(x) == IF x = "3600" THEN 3600 ELSE 7200

NoResult == [err |-> "", state |-> "", error |-> "", code |-> "",
             atoken |-> "", expiresIn |-> 0]

\* faulty variant: ParseCallbackURL also takes an access_token of the query string
ParseCallbackURL_QueryToken(u) ==
  IF ~u.ok THEN [NoResult EXCEPT !.err = "invalid callback URL"]
  ELSE IF u.error # "" THEN [NoResult EXCEPT !.state = u.state, !.error = u.error]
  ELSE IF u.code # "" THEN [NoResult EXCEPT !.state = u.state, !.code = u.code]
  ELSE IF u.frag = "bad"
    THEN [NoResult EXCEPT !.err = "invalid fragment parameters"]
  ELSE IF u.frag = "parsed" /\ u.atoken # ""
    THEN [NoResult EXCEPT !.atoken = u.atoken,
                          !.expiresIn = IF u.fexp # "" THEN parseExpiresIn(u.fexp) ELSE 0,
                          !.state = IF u.fstate # "" THEN u.fstate ELSE u.state]
  ELSE IF u.qtoken # "" THEN [NoResult EXCEPT !.atoken = u.qtoken, !.state = u.state]
  ELSE [NoResult EXCEPT !.err = "no authorization code or access token found"]

\* ParseCallbackURL: err is the error it returns ("" = nil), error the code
\* of the *ErrorResponse in result.Error ("" = nil)
ParseCallbackURL(u) ==
  IF ~u.ok THEN [NoResult EXCEPT !.err = "invalid callback URL"]
  ELSE IF u.error # "" THEN [NoResult EXCEPT !.state = u.state, !.error = u.error]
  ELSE IF u.code # "" THEN [NoResult EXCEPT !.state = u.state, !.code = u.code]
  ELSE IF u.frag = "bad"
    THEN [NoResult EXCEPT !.err = "invalid fragment parameters"]
  ELSE IF u.frag = "parsed" /\ u.atoken # ""
    THEN [NoResult EXCEPT !.atoken = u.atoken,
                          !.expiresIn = IF u.fexp # "" THEN parseExpiresIn(u.fexp) ELSE 0,
                          !.state = IF u.fstate # "" THEN u.fstate ELSE u.state]
  ELSE [NoResult EXCEPT !.err = "no authorization code or access token found"]

\* faulty variant: any callback state passes once a state is expected
ValidateState_IgnoresActual(expectedState, actualState) == expectedState # ""

\* Config.ValidateState
ValidateState(expectedState, actualState) ==
  expectedState # "" /\ expectedState = actualState

\* CallbackResult.ToToken, for a result with an access token
CallbackToken(r, t) ==
  LET tk == [nil |-> FALSE, access |-> r.atoken, refresh |-> "",
             expSet |-> FALSE, expiresAt |-> 0]
  IN  IF r.expiresIn > 0 THEN SetExpiration(tk, r.expiresIn, t) ELSE tk

FlowErr(k, i) == [kind |-> k, id |-> i, status |-> 0]

\* HandleCallback of either flow up to its last check: the error it returns,
\* or "exchange" (AuthorizationCodeFlow goes on to ExchangeCode), or "token"
\* (ImplicitGrantFlow returns the token of the fragment)
HandleCallbackChecks(f, u, expectedState) ==
  LET r == ParseCallbackURL(u)
  IN  IF r.err # "" THEN FlowErr("parse", r.err)
      ELSE IF r.error # "" THEN FlowErr("ErrorResponse", r.error)
      ELSE IF expectedState # "" /\ ~ValidateState(expectedState, r.state)
        THEN FlowErr("state", "state parameter mismatch")
      ELSE IF f = "code"
        THEN (IF r.code = "" THEN FlowErr("nocode", "no authorization code received")
              ELSE FlowErr("exchange", ""))
        ELSE (IF r.atoken = "" THEN FlowErr("notoken", "no access token received")
              ELSE FlowErr("token", ""))

\* ---------------------------------------------------------- TokenManager
FlowOps == {"AuthorizationCodeFlow.HandleCallback", "ImplicitGrantFlow.HandleCallback"}

\* the calls whose token-endpoint response is kept for inspection
ExchangeOps == FlowOps \cup {"RefreshToken"}

TokenOps == {"GetToken", "RefreshToken", "SetToken", "ClearToken", "IsAuthenticated"}
ClientOps == {"OAuthClient.do", "client.do", "RoundTrip"}

CanStart(t) == th[t].pc = "idle" /\ nCalls < MaxCalls

\* the application calls the manager directly only next to an OAuthClient
CanStartManager(t) == CanStart(t) /\ clientKind = "OAuthClient"

Start(t, o, label) ==
  /\ CanStart(t)
  /\ nCalls' = nCalls + 1
  /\ th' = [th EXCEPT ![t].pc = label, ![t].op = o, ![t].stage = "first",
                      ![t].n = Len(hist),
                      ![t].tok0 = IF o \in TokenOps THEN token ELSE NilToken,
                      ![t].st0 = IF o \in TokenOps THEN stored ELSE NilToken]
  /\ UNCHANGED <<now, rlVars, token, mu, hasStorage, stored, hasCallback,
                 clientKind, configOk, storages, nExch, okCalls>>

\* the error the clients return when the first GetAccessToken fails
TokenError(e) == [kind |-> "token", id |-> e, status |-> 0]

\* where a goroutine continues when GetToken returns (e = "" for nil)
AfterGetToken(r, e) ==
  IF r.op = "GetToken" \/ e # "" THEN "done" ELSE "do_send"

\* faulty variant: the returned error does not wrap its cause
GetTokenReturn_Unwrapped(t, tok, e, c) ==
  [th EXCEPT ![t].pc = AfterGetToken(th[t], e), ![t].cur = tok, ![t].err = e,
             ![t].cause = "",
             ![t].out = IF th[t].op \in ClientOps /\ e # ""
                          THEN (IF th[t].stage = "first" THEN TokenError(e)
                                ELSE th[t].first)
                          ELSE @]

\* GetToken returns (tok, e) with cause c.  In a client the first
\* GetAccessToken error ends the call; an error of the GetAccessToken that
\* follows a refresh leaves the result of the first request in place.
GetTokenReturn(t, tok, e, c) ==
  [th EXCEPT ![t].pc = AfterGetToken(th[t], e), ![t].cur = tok, ![t].err = e,
             ![t].cause = c,
             ![t].out = IF th[t].op \in ClientOps /\ e # ""
                          THEN (IF th[t].stage = "first" THEN TokenError(e)
                                ELSE th[t].first)
                          ELSE @]

\* HandleCallback returns after ExchangeCode returned (tok, e): the token, or
\* the error wrapped as 'failed to exchange code for token'
ExchangeCodeReturn(t, tok, e) ==
  [th EXCEPT ![t].pc = "done", ![t].cur = tok, ![t].cause = e,
             ![t].err = IF e = "" THEN "" ELSE "failed to exchange code for token",
             ![t].out = IF e = "" THEN NoErr ELSE FlowErr("exchange", e)]

\* where a goroutine continues when RefreshToken returns
AfterRefreshToken(r, e) ==
  IF r.op = "RefreshToken" \/ e # "" THEN "done" ELSE "gt_snap"

\* faulty variant: the client goes on to the retry whatever RefreshToken returned
RefreshTokenReturn_RetriesAnyway(t, tok, e, c) ==
  [th EXCEPT ![t].pc = IF th[t].op = "RefreshToken" THEN "done" ELSE "gt_snap",
             ![t].cur = tok, ![t].err = e,
             ![t].cause = c, ![t].rdone = TRUE, ![t].rerr = e, ![t].rtok = tok,
             ![t].stage = IF th[t].op \in ClientOps THEN "retry" ELSE @]

\* RefreshToken returns (tok, e).  In a client a successful refresh is
\* followed by the second GetAccessToken, a failed one leaves the result of
\* the first request in place.
RefreshTokenReturn(t, tok, e, c) ==
  [th EXCEPT ![t].pc = AfterRefreshToken(th[t], e), ![t].cur = tok, ![t].err = e,
             ![t].cause = c, ![t].rdone = TRUE, ![t].rerr = e, ![t].rtok = tok,
             ![t].stage = IF th[t].op \in ClientOps /\ e = "" THEN "retry" ELSE @,
             ![t].out = IF th[t].op \in ClientOps /\ e # "" THEN th[t].first ELSE @]

\* faulty variant: SetToken installs the token only once it is saved
SetToken_SaveFirst(t, tok, ok) ==
  /\ CanLock(mu)
  /\ token' = IF hasStorage /\ ~ok THEN token ELSE tok
  /\ stored' = IF hasStorage THEN SaveToken(stored, tok, ok) ELSE stored
  /\ UNCHANGED <<now, rlVars, mu, hasStorage, hasCallback, clientKind, configOk, storages, nExch, okCalls>>

\* SetToken: Lock, tm.token = token, storage.SaveToken, Unlock
SetToken(t, tok, ok) ==
  /\ CanLock(mu)
  /\ token' = tok
  /\ stored' = IF hasStorage THEN SaveToken(stored, tok, ok) ELSE stored
  /\ UNCHANGED <<now, rlVars, mu, hasStorage, hasCallback, clientKind, configOk, storages, nExch, okCalls>>

SaveFails(ok) == hasStorage /\ ~ok

\* a caller's SetToken
CallSetToken(t) ==
  \E tok \in CallerTokens(now), ok \in BOOLEAN :
    /\ CanStartManager(t)
    /\ hasStorage \/ ok
    /\ SetToken(t, tok, ok)
    /\ nCalls' = nCalls + 1
    /\ th' = [th EXCEPT ![t].pc = "done", ![t].op = "SetToken", ![t].cur = tok,
                        ![t].err = IF SaveFails(ok) THEN "save failed" ELSE ""]

\* ClearToken: Lock, tm.token = nil, storage.ClearToken, Unlock
ClearToken(t) ==
  \E ok \in BOOLEAN :
    /\ CanStartManager(t)
    /\ hasStorage \/ ok
    /\ CanLock(mu)
    /\ token' = NilToken
    /\ stored' = IF hasStorage THEN ClearStored(stored, ok) ELSE stored
    /\ nCalls' = nCalls + 1
    /\ th' = [th EXCEPT ![t].pc = "done", ![t].op = "ClearToken",
                        ![t].tok0 = token, ![t].st0 = stored,
                        ![t].err = IF SaveFails(ok) THEN "clear failed" ELSE ""]
    /\ UNCHANGED <<now, rlVars, mu, hasStorage, hasCallback, clientKind, configOk, storages, nExch, okCalls>>

\* IsAuthenticated: RLock, token != nil && token.IsValid()
IsAuthenticated(t) ==
  /\ CanStartManager(t)
  /\ CanRLock(mu)
  /\ nCalls' = nCalls + 1
  /\ th' = [th EXCEPT ![t].pc = "done", ![t].op = "IsAuthenticated",
                      ![t].tok0 = token, ![t].st0 = stored, ![t].tchk = now,
                      ![t].val = IF ~token.nil /\ IsValid(token, now) THEN 1 ELSE 0]
  /\ UNCHANGED <<now, rlVars, token, mu, hasStorage, stored, hasCallback,
                 clientKind, configOk, storages, nExch, okCalls>>

CallGetToken(t) == CanStartManager(t) /\ Start(t, "GetToken", "gt_snap")

CallRefreshToken(t) == CanStartManager(t) /\ Start(t, "RefreshToken", "rt_snap")

\* GetToken: RLock, currentToken := tm.token, RUnlock
GetTokenSnapshot(t) ==
  /\ th[t].pc = "gt_snap"
  /\ CanRLock(mu)
  /\ th' = [th EXCEPT ![t].cur = token,
                      ![t].pc = IF token.nil /\ hasStorage THEN "gt_load" ELSE "gt_check"]
  /\ UNCHANGED <<now, rlVars, tmVars>>

\* GetToken: storage.LoadToken(); a failed load is swallowed
GetTokenLoad(t) ==
  \E ok \in BOOLEAN :
    /\ th[t].pc = "gt_load"
    /\ th' = IF LoadOk(stored, ok)
               THEN [th EXCEPT ![t].pc = "gt_hydrate", ![t].cur = stored, ![t].nld = @ + 1,
                               ![t].lok = TRUE]
               ELSE [th EXCEPT ![t].pc = "gt_check", ![t].nld = @ + 1]
    /\ UNCHANGED <<now, rlVars, tmVars>>

\* GetToken: Lock, tm.token = loadedToken, Unlock
GetTokenHydrate(t) ==
  /\ th[t].pc = "gt_hydrate"
  /\ CanLock(mu)
  /\ token' = th[t].cur
  /\ th' = Goto(t, "gt_check")
  /\ UNCHANGED <<now, rlVars, mu, hasStorage, stored, hasCallback, clientKind, configOk, storages,
                 nExch, nCalls, okCalls>>

\* GetToken: nil check, IsValid, CanRefresh
GetTokenCheck(t) ==
  /\ th[t].pc = "gt_check"
  /\ LET c == th[t].cur
         r == IF c.nil THEN GetTokenReturn(t, NilToken, "no token available", "")
              ELSE IF IsValid(c, now) THEN GetTokenReturn(t, c, "", "")
              ELSE IF ~CanRefresh(c) THEN GetTokenReturn(t, NilToken, "token expired", "")
              ELSE Goto(t, "gt_exchange")
     IN  th' = [r EXCEPT ![t].rvalid = th[t].stage = "retry" /\ ~c.nil /\ IsValid(c, now),
                         ![t].tchk = IF th[t].op = "GetToken" THEN now ELSE @]
  /\ UNCHANGED <<now, rlVars, tmVars>>

\* RefreshToken: RLock, currentToken := tm.token, RUnlock, nil and CanRefresh checks
RefreshTokenSnapshot(t) ==
  /\ th[t].pc = "rt_snap"
  /\ CanRLock(mu)
  /\ th' = IF token.nil THEN RefreshTokenReturn(t, NilToken, "no token to refresh", "")
           ELSE IF ~CanRefresh(token)
             THEN RefreshTokenReturn(t, NilToken, "token cannot be refreshed", "")
           ELSE [th EXCEPT ![t].pc = "rt_exchange", ![t].cur = token]
  /\ UNCHANGED <<now, rlVars, tmVars>>

\* refreshToken / exchangeToken: the POST to the token endpoint is sent
ExchangeSend(t) ==
  /\ th[t].pc \in {"gt_exchange", "rt_exchange", "fc_exchange"}
  /\ nExch' = nExch + 1
  /\ th' = [th EXCEPT ![t].pc = CASE th[t].pc = "gt_exchange" -> "gt_wait"
                                  [] th[t].pc = "rt_exchange" -> "rt_wait"
                                  [] OTHER -> "fc_wait",
                      ![t].xid = nExch + 1,
                      ![t].sent = IF th[t].pc = "fc_exchange" THEN th[t].cb.code
                                  ELSE th[t].cur.refresh,
                      ![t].nex = @ + 1]
  /\ UNCHANGED <<now, rlVars, token, mu, hasStorage, stored, hasCallback,
                 clientKind, configOk, storages, nCalls, okCalls>>

\* exchangeToken: the response is read and parsed
ExchangeReceive(t) ==
  \E resp \in TokenResponses(th[t].xid) :
    /\ th[t].pc \in {"gt_wait", "rt_wait", "fc_wait"}
    /\ LET e == exchangeError(resp)
           tk == ToToken(resp, now)
           r == CASE th[t].pc = "gt_wait" ->
                       IF e # "" THEN GetTokenReturn(t, NilToken, "failed to refresh token", e)
                       ELSE [th EXCEPT ![t].pc = "gt_set", ![t].cur = tk, ![t].xok = TRUE]
                  [] th[t].pc = "rt_wait" ->
                       IF e # "" THEN RefreshTokenReturn(t, NilToken, e, e)
                       ELSE [th EXCEPT ![t].pc = "rt_set", ![t].cur = tk, ![t].xok = TRUE]
                  [] OTHER ->
                       IF e # "" THEN ExchangeCodeReturn(t, NilToken, e)
                       ELSE [ExchangeCodeReturn(t, tk, "") EXCEPT ![t].xok = TRUE]
       IN  th' = [r EXCEPT ![t].resp = IF th[t].op \in ExchangeOps THEN resp ELSE @,
                           ![t].ecode = exchangeErrorCode(resp)]
    /\ UNCHANGED <<now, rlVars, tmVars>>

\* GetToken: tm.SetToken(refreshedToken)
GetTokenSet(t) ==
  \E ok \in BOOLEAN :
    /\ th[t].pc = "gt_set"
    /\ hasStorage \/ ok
    /\ SetToken(t, th[t].cur, ok)
    /\ th' = IF SaveFails(ok)
               THEN GetTokenReturn(t, NilToken, "failed to save refreshed token", "save failed")
               ELSE [th EXCEPT ![t].pc = "gt_cb", ![t].sok = TRUE]
    /\ UNCHANGED nCalls

\* GetToken: the refresh callback, if set, then return refreshedToken
GetTokenCallback(t) ==
  /\ th[t].pc = "gt_cb"
  /\ LET r == GetTokenReturn(t, th[t].cur, "", "")
     IN  th' = IF hasCallback
                 THEN [r EXCEPT ![t].ncb = @ + 1, ![t].cbtok = th[t].cur,
                                ![t].cbok = (token = th[t].cur
                                             /\ (hasStorage => stored = th[t].cur))]
                 ELSE r
  /\ UNCHANGED <<now, rlVars, tmVars>>

\* RefreshToken: tm.SetToken(refreshedToken), return
RefreshTokenSet(t) ==
  \E ok \in BOOLEAN :
    /\ th[t].pc = "rt_set"
    /\ hasStorage \/ ok
    /\ SetToken(t, th[t].cur, ok)
    /\ th' = IF SaveFails(ok)
               THEN RefreshTokenReturn(t, NilToken, "failed to save refreshed token", "save failed")
               ELSE [RefreshTokenReturn(t, th[t].cur, "", "") EXCEPT ![t].sok = TRUE]
    /\ UNCHANGED nCalls

\* ------------------------------------------------------------ API calls
StatusUnauthorized == 401

Statuses == {200, StatusUnauthorized, 500}

\* strconv.Itoa on the status codes of the model
Itoa(n) ==
  CASE n = 200 -> "200" [] n = StatusUnauthorized -> "401" [] n = 500 -> "500"

\* what the API may answer: no answer (transport error), or a status with a
\* body that is not JSON, JSON without an error object, or (status >= 400)
\* JSON with an error object whose id is the status
ApiResponses ==
  {[kind |-> "transport", status |-> 0, body |-> "", id |-> ""]}
  \cup {[kind |-> "http", status |-> st, body |-> b, id |-> ""] :
          st \in Statuses, b \in {"nonjson", "noerror"}}
  \cup {[kind |-> "http", status |-> st, body |-> "error", id |-> Itoa(st)] :
          st \in Statuses \ {200}}

\* HandleResponse: the error returned for an HTTP response.  A JSON body
\* without an error object makes it return a nil *Error inside a non-nil
\* error value ("typednil").
HandleResponse(resp) ==
  IF resp.status >= 400
    THEN IF resp.body = "nonjson"
           THEN [kind |-> "api", id |-> Itoa(resp.status), status |-> 0]
           ELSE IF resp.body = "error"
             THEN [kind |-> "api", id |-> resp.id, status |-> 0]
             ELSE [kind |-> "typednil", id |-> "", status |-> 0]
    ELSE IF resp.body = "nonjson"
           THEN [kind |-> "parse", id |-> "", status |-> 0]
           ELSE NoErr

\* DoRequest: ExecuteRequest fails, or HandleResponse decides
DoRequest(resp) ==
  IF resp.kind = "transport" THEN [kind |-> "transport", id |-> "", status |-> 0]
  ELSE HandleResponse(resp)

\* Base.RoundTrip: the pair (resp, err) the transport returns
BaseRoundTrip(resp) ==
  IF resp.kind = "transport" THEN [kind |-> "transport", id |-> "", status |-> 0]
  ELSE [kind |-> "resp", id |-> "", status |-> resp.status]

\* faulty variant: any API error counts as an authentication error
IsAuthError_AnyApiError(e) == e.kind = "api"

\* OAuthClient.do: err is an *api.Error whose ID is "401"
\* (the nil *Error is handled in DoSend: reading its ID panics)
IsAuthError(e) == e.kind = "api" /\ e.id = "401"

\* RoundTrip: err == nil && resp.StatusCode == http.StatusUnauthorized
IsUnauthorizedResponse(r) == r.kind = "resp" /\ r.status = StatusUnauthorized

\* does the result of the first request start the refresh-and-retry path
WantsRefresh(o, e) ==
  CASE o = "OAuthClient.do" -> IsAuthError(e)
    [] o = "RoundTrip" -> IsUnauthorizedResponse(e)
    [] OTHER -> FALSE

\* faulty variant: a response that fails to parse counts as success
Succeeded_IgnoresParseError(o, e) ==
  IF o = "RoundTrip" THEN FALSE ELSE e.kind \in {"nil", "parse"}

\* did the request succeed as far as the caller of do is concerned
Succeeded(o, e) == IF o = "RoundTrip" THEN FALSE ELSE e.kind = "nil"

Panic == [kind |-> "panic", id |-> "nil pointer dereference", status |-> 0]

\* GET/POST/PUT/PATCH/DELETE on the client in use
CallDo(t) ==
  /\ clientKind # "static"
  /\ Start(t, IF clientKind = "OAuthClient" THEN "OAuthClient.do" ELSE "client.do", "gt_snap")

\* client.do with a StaticTokenProvider: GetAccessToken returns the fixed token
CallDoStatic(t) ==
  /\ clientKind = "static"
  /\ CanStart(t)
  /\ nCalls' = nCalls + 1
  /\ th' = [th EXCEPT ![t].pc = "do_send", ![t].op = "client.do", ![t].stage = "first",
                      ![t].n = Len(hist),
                      ![t].cur = [NilToken EXCEPT !.nil = FALSE, !.access = "static"]]
  /\ UNCHANGED <<now, rlVars, token, mu, hasStorage, stored, hasCallback,
                 clientKind, configOk, storages, nExch, okCalls>>

\* AuthenticatedTransport.RoundTrip
CallRoundTrip(t) == CanStartManager(t) /\ Start(t, "RoundTrip", "gt_snap")

\* the request is sent with the access token just obtained and answered
DoSend(t) ==
  \E resp \in ApiResponses :
    /\ th[t].pc = "do_send"
    /\ LET o == th[t].op
           e == IF o = "RoundTrip" THEN BaseRoundTrip(resp) ELSE DoRequest(resp)
           sent == [th EXCEPT ![t].nreq = @ + 1,
                              ![t].used = Append(@, th[t].cur.access)]
       IN  th' =
             IF th[t].stage = "first"
               THEN LET f == [sent EXCEPT ![t].first = e, ![t].nex0 = th[t].nex,
                                          ![t].http = resp.status]
                    IN  IF Succeeded(o, e) THEN [f EXCEPT ![t].pc = "do_record", ![t].out = e]
                        ELSE IF o = "OAuthClient.do" /\ e.kind = "typednil"
                          THEN [f EXCEPT ![t].pc = "done", ![t].out = Panic]
                        ELSE IF WantsRefresh(o, e)
                          THEN [f EXCEPT ![t].pc = "rt_snap", ![t].out = e]
                        ELSE [f EXCEPT ![t].pc = "done", ![t].out = e]
               ELSE LET g == [sent EXCEPT ![t].second = e, ![t].out = e]
                    IN  IF Succeeded(o, e) THEN [g EXCEPT ![t].pc = "do_record"]
                        ELSE [g EXCEPT ![t].pc = "done"]
    /\ UNCHANGED <<now, rlVars, tmVars>>

\* do: c.rateLimiter.RecordRequest()
DoRecordRequest(t) == RecordRequestLock(t, "do_record")

\* do: return nil; okCalls counts the calls that returned without error
DoReturn(t) ==
  /\ th[t].pc = "do_ret"
  /\ okCalls' = okCalls + (IF th[t].out.kind = "nil" THEN 1 ELSE 0)
  /\ th' = Goto(t, "done")
  /\ UNCHANGED <<now, rlVars, token, mu, hasStorage, stored, hasCallback,
                 clientKind, configOk, storages, nExch, nCalls>>

\* time passes while tokens are in use
Elapse ==
  /\ now < MaxElapse
  /\ now' = now + 1
  /\ UNCHANGED <<rlVars, th, tmVars>>

\* ------------------------------------- manager and client, one caller
Caller == "g1"

Init ==
  /\ now = 0
  /\ requests = <<>>
  /\ rlMutex = [w |-> NoThread, r |-> {}]
  /\ limit = YNABLimit
  /\ window = Hour
  /\ hist = <<>>
  /\ th = [t \in Threads |-> Idle]
  /\ token = NilToken
  /\ mu = [w |-> NoThread, r |-> {}]
  /\ hasStorage \in BOOLEAN
  /\ stored \in IF hasStorage THEN {NilToken} \cup CallerTokens(0) ELSE {NilToken}
  /\ hasCallback \in BOOLEAN
  /\ clientKind \in {"OAuthClient", "client", "static"}
  /\ configOk = TRUE
  /\ storages = <<>>
  /\ nExch = 0
  /\ nCalls = 0
  /\ okCalls = 0

Next ==
  \/ Elapse
  \/ CallSetToken(Caller)
  \/ ClearToken(Caller)
  \/ IsAuthenticated(Caller)
  \/ CallGetToken(Caller)
  \/ CallRefreshToken(Caller)
  \/ GetTokenSnapshot(Caller)
  \/ GetTokenLoad(Caller)
  \/ GetTokenHydrate(Caller)
  \/ GetTokenCheck(Caller)
  \/ RefreshTokenSnapshot(Caller)
  \/ ExchangeSend(Caller)
  \/ ExchangeReceive(Caller)
  \/ GetTokenSet(Caller)
  \/ GetTokenCallback(Caller)
  \/ RefreshTokenSet(Caller)
  \/ CallDo(Caller)
  \/ CallDoStatic(Caller)
  \/ CallRoundTrip(Caller)
  \/ DoSend(Caller)
  \/ DoRecordRequest(Caller)
  \/ RecordRequestAppend(Caller)
  \/ RecordRequestCleanup(Caller)
  \/ DoReturn(Caller)
  \/ Return(Caller)

Spec == Init /\ [][Next]_vars

TypeOK ==
  /\ nCalls \in 0..MaxCalls
  /\ okCalls <= nCalls
  /\ token.nil \in BOOLEAN
  /\ stored.nil \in BOOLEAN

\* ------------------------------------------------- flows and token type
\* HandleCallback of either flow: parse, provider error, state, code or token;
\* ExchangeCode validates the configuration before the exchange
HandleCallback(t) ==
  \E f \in {"code", "implicit"}, u \in CallbackURLs, expectedState \in {"", "S"} :
    /\ CanStart(t)
    /\ nCalls' = nCalls + 1
    /\ LET c == HandleCallbackChecks(f, u, expectedState)
           r == [th EXCEPT ![t].op = IF f = "code" THEN "AuthorizationCodeFlow.HandleCallback"
                                     ELSE "ImplicitGrantFlow.HandleCallback",
                           ![t].flow = f, ![t].cb = u, ![t].want = expectedState,
                           ![t].tchk = now]
       IN  th' = CASE c.kind = "exchange" /\ configOk ->
                        [r EXCEPT ![t].pc = "fc_exchange"]
                   [] c.kind = "exchange" /\ ~configOk ->
                        [r EXCEPT ![t].pc = "done", ![t].err = "failed to exchange code for token",
                                  ![t].cause = "invalid config",
                                  ![t].out = FlowErr("exchange", "invalid config")]
                   [] c.kind = "token" ->
                        [r EXCEPT ![t].pc = "done",
                                  ![t].cur = CallbackToken(ParseCallbackURL(u), now)]
                   [] OTHER ->
                        [r EXCEPT ![t].pc = "done", ![t].err = c.id, ![t].out = c]
    /\ UNCHANGED <<now, rlVars, token, mu, hasStorage, stored, hasCallback,
                   clientKind, configOk, storages, nExch, okCalls>>

\* tokens an application may hold: expires_in is the ExpiresIn field
TypeTokens(t) ==
  {[nil |-> FALSE, access |-> a, refresh |-> r, expSet |-> FALSE, expiresAt |-> 0,
    expiresIn |-> x] : a \in {"", "a0"}, r \in {"", "r0"}, x \in {0, DefaultExpiresIn}}
  \cup
  {[nil |-> FALSE, access |-> a, refresh |-> "", expSet |-> TRUE, expiresAt |-> t + d,
    expiresIn |-> x] :
     a \in {"", "a0"}, d \in {0, Buffer - 1, Buffer, Buffer + 1},
     x \in {0, DefaultExpiresIn}}

\* Token.IsExpired, Token.IsValid and Token.CanRefresh called on a token
CallTokenMethod(t) ==
  \E tok \in TypeTokens(now), o \in {"IsExpired", "IsValid", "CanRefresh"} :
    /\ CanStart(t)
    /\ nCalls' = nCalls + 1
    /\ th' = [th EXCEPT ![t].pc = "done", ![t].op = o, ![t].cur = tok, ![t].tchk = now,
                        ![t].val = CASE o = "IsExpired" -> IF IsExpired(tok, now) THEN 1 ELSE 0
                                     [] o = "IsValid" -> IF IsValid(tok, now) THEN 1 ELSE 0
                                     [] OTHER -> IF CanRefresh(tok) THEN 1 ELSE 0]
    /\ UNCHANGED <<now, rlVars, token, mu, hasStorage, stored, hasCallback,
                   clientKind, configOk, storages, nExch, okCalls>>

\* an application with flows and a manager built with a refreshable token
InitFlow ==
  /\ now = 0
  /\ requests = <<>>
  /\ rlMutex = [w |-> NoThread, r |-> {}]
  /\ limit = YNABLimit
  /\ window = Hour
  /\ hist = <<>>
  /\ th = [t \in Threads |-> Idle]
  /\ token \in {NilToken} \cup {tk \in CallerTokens(0) : tk.access # ""}
  /\ mu = [w |-> NoThread, r |-> {}]
  /\ hasStorage = TRUE
  /\ stored = token
  /\ hasCallback = FALSE
  /\ clientKind = "OAuthClient"
  /\ configOk \in BOOLEAN
  /\ storages = <<>>
  /\ nExch = 0
  /\ nCalls = 0
  /\ okCalls = 0

NextFlow ==
  \/ Elapse
  \/ HandleCallback(Caller)
  \/ CallTokenMethod(Caller)
  \/ CallRefreshToken(Caller)
  \/ RefreshTokenSnapshot(Caller)
  \/ ExchangeSend(Caller)
  \/ ExchangeReceive(Caller)
  \/ RefreshTokenSet(Caller)
  \/ Return(Caller)

SpecFlow == InitFlow /\ [][NextFlow]_vars

\* ------------------------------------------------------ ChainedStorage
MaxMembers == 2

Members == 1..MaxMembers

\* tokens an application saves
ChainTokens ==
  {[nil |-> FALSE, access |-> a, refresh |-> "", expSet |-> FALSE, expiresAt |-> 0] :
     a \in {"a0", "a1"}}

\* per member: does its storage operation fail
Failures == [Members -> BOOLEAN]

\* faulty variant: the loop of SaveToken returns at the first error
SaveAll_StopsAtFirstError(sts, tok, fails, i, firstError) ==
  LET first == CHOOSE k \in 1..(Len(sts) + 1) :
                 /\ k = Len(sts) + 1 \/ fails[k]
                 /\ \A j \in 1..(k - 1) : ~fails[j]
  IN  [storages |-> [j \in 1..Len(sts) |-> IF j < first THEN tok ELSE sts[j]],
       err |-> IF first > Len(sts) THEN 0 ELSE first]

\* ChainedStorage.SaveToken from member i on: every member is asked to save,
\* firstError is the index of the first member that failed (0 = nil)
RECURSIVE SaveAll(_, _, _, _, _)
SaveAll(sts, tok, fails, i, firstError) ==
  IF i > Len(sts) THEN [storages |-> sts, err |-> firstError]
  ELSE SaveAll([sts EXCEPT ![i] = SaveToken(sts[i], tok, ~fails[i])], tok, fails, i + 1,
               IF fails[i] /\ firstError = 0 THEN i ELSE firstError)

\* ChainedStorage.ClearToken from member i on
RECURSIVE ClearAll(_, _, _, _)
ClearAll(sts, fails, i, firstError) ==
  IF i > Len(sts) THEN [storages |-> sts, err |-> firstError]
  ELSE ClearAll([sts EXCEPT ![i] = ClearStored(sts[i], ~fails[i])], fails, i + 1,
                IF fails[i] /\ firstError = 0 THEN i ELSE firstError)

\* faulty variant: LoadToken gives up when the first member holding a token
\* fails to load
LoadFirst_NoFallback(sts, fails, i) ==
  LET holders == {k \in 1..Len(sts) : ~sts[k].nil}
      first == CHOOSE k \in holders : \A j \in holders : k <= j
  IN  IF holders # {} /\ ~fails[first] THEN [tok |-> sts[first], err |-> ""]
      ELSE [tok |-> NilToken, err |-> "no token found in any storage"]

\* ChainedStorage.LoadToken from member i on: the first member that has a
\* token and loads it
RECURSIVE LoadFirst(_, _, _)
LoadFirst(sts, fails, i) ==
  IF i > Len(sts) THEN [tok |-> NilToken, err |-> "no token found in any storage"]
  ELSE IF ~sts[i].nil /\ LoadOk(sts[i], ~fails[i]) THEN [tok |-> sts[i], err |-> ""]
  ELSE LoadFirst(sts, fails, i + 1)

\* ChainedStorage.HasToken from member i on
RECURSIVE HasAny(_, _)
HasAny(sts, i) ==
  IF i > Len(sts) THEN FALSE
  ELSE IF ~sts[i].nil THEN TRUE
  ELSE HasAny(sts, i + 1)

ChainedSaveToken(t) ==
  \E tok \in ChainTokens, fails \in Failures :
    /\ th[t].pc = "idle"
    /\ LET r == SaveAll(storages, tok, fails, 1, 0)
       IN  /\ storages' = r.storages
           /\ th' = [th EXCEPT ![t].pc = "done", ![t].op = "ChainedStorage.SaveToken",
                               ![t].cur = tok, ![t].val = r.err,
                               ![t].prev = storages, ![t].fail = fails]
    /\ UNCHANGED <<now, rlVars, token, mu, hasStorage, stored, hasCallback,
                   clientKind, configOk, nExch, nCalls, okCalls>>

ChainedClearToken(t) ==
  \E fails \in Failures :
    /\ th[t].pc = "idle"
    /\ LET r == ClearAll(storages, fails, 1, 0)
       IN  /\ storages' = r.storages
           /\ th' = [th EXCEPT ![t].pc = "done", ![t].op = "ChainedStorage.ClearToken",
                               ![t].val = r.err,
                               ![t].prev = storages, ![t].fail = fails]
    /\ UNCHANGED <<now, rlVars, token, mu, hasStorage, stored, hasCallback,
                   clientKind, configOk, nExch, nCalls, okCalls>>

ChainedLoadToken(t) ==
  \E fails \in Failures :
    /\ th[t].pc = "idle"
    /\ LET r == LoadFirst(storages, fails, 1)
       IN  th' = [th EXCEPT ![t].pc = "done", ![t].op = "ChainedStorage.LoadToken",
                            ![t].cur = r.tok, ![t].err = r.err,
                            ![t].prev = storages, ![t].fail = fails]
    /\ UNCHANGED <<now, rlVars, tmVars>>

ChainedHasToken(t) ==
  /\ th[t].pc = "idle"
  /\ th' = [th EXCEPT ![t].pc = "done", ![t].op = "ChainedStorage.HasToken",
                      ![t].val = IF HasAny(storages, 1) THEN 1 ELSE 0,
                      ![t].prev = storages]
  /\ UNCHANGED <<now, rlVars, tmVars>>

\* SaveToken called on a member storage directly
MemberSaveToken(t) ==
  \E i \in Members, tok \in ChainTokens, ok \in BOOLEAN :
    /\ th[t].pc = "idle"
    /\ storages' = [storages EXCEPT ![i] = SaveToken(@, tok, ok)]
    /\ th' = [th EXCEPT ![t].pc = "done", ![t].op = "TokenStorage.SaveToken",
                        ![t].cur = tok, ![t].val = IF ok THEN 0 ELSE i]
    /\ UNCHANGED <<now, rlVars, token, mu, hasStorage, stored, hasCallback,
                   clientKind, configOk, nExch, nCalls, okCalls>>

\* ClearToken called on a member storage directly
MemberClearToken(t) ==
  \E i \in Members, ok \in BOOLEAN :
    /\ th[t].pc = "idle"
    /\ storages' = [storages EXCEPT ![i] = ClearStored(@, ok)]
    /\ th' = [th EXCEPT ![t].pc = "done", ![t].op = "TokenStorage.ClearToken",
                        ![t].val = IF ok THEN 0 ELSE i]
    /\ UNCHANGED <<now, rlVars, token, mu, hasStorage, stored, hasCallback,
                   clientKind, configOk, nExch, nCalls, okCalls>>

\* NewChainedStorage over empty member storages
InitChain ==
  /\ now = 0
  /\ requests = <<>>
  /\ rlMutex = [w |-> NoThread, r |-> {}]
  /\ limit = YNABLimit
  /\ window = Hour
  /\ hist = <<>>
  /\ th = [t \in Threads |-> Idle]
  /\ token = NilToken
  /\ mu = [w |-> NoThread, r |-> {}]
  /\ hasStorage = TRUE
  /\ stored = NilToken
  /\ hasCallback = FALSE
  /\ clientKind = "OAuthClient"
  /\ configOk = TRUE
  /\ storages = [i \in Members |-> NilToken]
  /\ nExch = 0
  /\ nCalls = 0
  /\ okCalls = 0

NextChain ==
  \/ ChainedSaveToken(Caller)
  \/ ChainedClearToken(Caller)
  \/ ChainedLoadToken(Caller)
  \/ ChainedHasToken(Caller)
  \/ MemberSaveToken(Caller)
  \/ MemberClearToken(Caller)
  \/ Return(Caller)

SpecChain == InitChain /\ [][NextChain]_vars

\* ------------------------------- goroutines sharing one TokenManager
\* The steps below take and release tm.mu where the code does; the storage
\* never fails (a load of an empty storage finds nothing).

\* an expired token that can be refreshed
OldToken == [nil |-> FALSE, access |-> "a0", refresh |-> "r0", expSet |-> TRUE,
             expiresAt |-> Buffer - 1]

\* the token goroutine t hands to SetToken
NewToken(t) == [nil |-> FALSE, access |-> "set-" \o t, refresh |-> "", expSet |-> FALSE,
                expiresAt |-> 0]

\* goroutine t holds tm.mu
Holds(t) == mu.w = t \/ t \in mu.r

\* goroutine t is between sending the refresh request and its SetToken
InFlight(t) ==
  th[t].pc \in {"gt_exchange", "gt_wait", "gt_set", "rt_exchange", "rt_wait", "rt_set"}

\* GetToken, RefreshToken: tm.mu.RLock()
TokenRLock(t) ==
  /\ th[t].pc \in {"gt_snap", "rt_snap"}
  /\ CanRLock(mu)
  /\ mu' = RLock(mu, t)
  /\ th' = Goto(t, IF th[t].pc = "gt_snap" THEN "gt_rlocked" ELSE "rt_rlocked")
  /\ UNCHANGED <<now, rlVars, token, hasStorage, stored, hasCallback, clientKind,
                 configOk, storages, nExch, nCalls, okCalls>>

\* faulty variant: the read lock is kept until the call returns
TokenRUnlock_Keeps(t) ==
  /\ th[t].pc \in {"gt_rlocked", "rt_rlocked"}
  /\ mu' = mu
  /\ th' = IF th[t].pc = "gt_rlocked"
             THEN [th EXCEPT ![t].cur = token,
                             ![t].pc = IF token.nil /\ hasStorage THEN "gt_load"
                                       ELSE "gt_check"]
           ELSE IF token.nil THEN RefreshTokenReturn(t, NilToken, "no token to refresh", "")
           ELSE IF ~CanRefresh(token)
             THEN RefreshTokenReturn(t, NilToken, "token cannot be refreshed", "")
           ELSE [th EXCEPT ![t].pc = "rt_exchange", ![t].cur = token]
  /\ UNCHANGED <<now, rlVars, token, hasStorage, stored, hasCallback, clientKind,
                 configOk, storages, nExch, nCalls, okCalls>>

\* GetToken, RefreshToken: currentToken := tm.token, tm.mu.RUnlock(), and the
\* checks of RefreshToken
TokenRUnlock(t) ==
  /\ th[t].pc \in {"gt_rlocked", "rt_rlocked"}
  /\ mu' = RUnlock(mu, t)
  /\ th' = IF th[t].pc = "gt_rlocked"
             THEN [th EXCEPT ![t].cur = token,
                             ![t].pc = IF token.nil /\ hasStorage THEN "gt_load"
                                       ELSE "gt_check"]
           ELSE IF token.nil THEN RefreshTokenReturn(t, NilToken, "no token to refresh", "")
           ELSE IF ~CanRefresh(token)
             THEN RefreshTokenReturn(t, NilToken, "token cannot be refreshed", "")
           ELSE [th EXCEPT ![t].pc = "rt_exchange", ![t].cur = token]
  /\ UNCHANGED <<now, rlVars, token, hasStorage, stored, hasCallback, clientKind,
                 configOk, storages, nExch, nCalls, okCalls>>

\* a caller's SetToken starts
SetTokenCall(t) ==
  /\ CanStartManager(t)
  /\ nCalls' = nCalls + 1
  /\ th' = [th EXCEPT ![t].pc = "st_set", ![t].op = "SetToken", ![t].cur = NewToken(t)]
  /\ UNCHANGED <<now, rlVars, token, mu, hasStorage, stored, hasCallback, clientKind,
                 configOk, storages, nExch, okCalls>>

\* faulty variant: a refreshed token is not installed over a token that is valid
SetTokenLock_KeepsValid(t) ==
  /\ th[t].pc \in {"gt_set", "rt_set", "st_set"}
  /\ CanLock(mu)
  /\ mu' = Lock(mu, t)
  /\ token' = IF ~token.nil /\ IsValid(token, now) THEN token ELSE th[t].cur
  /\ th' = Goto(t, CASE th[t].pc = "gt_set" -> "gt_save"
                     [] th[t].pc = "rt_set" -> "rt_save"
                     [] OTHER -> "st_save")
  /\ UNCHANGED <<now, rlVars, hasStorage, stored, hasCallback, clientKind,
                 configOk, storages, nExch, nCalls, okCalls>>

\* SetToken: tm.mu.Lock(), tm.token = token
SetTokenLock(t) ==
  /\ th[t].pc \in {"gt_set", "rt_set", "st_set"}
  /\ CanLock(mu)
  /\ mu' = Lock(mu, t)
  /\ token' = th[t].cur
  /\ th' = Goto(t, CASE th[t].pc = "gt_set" -> "gt_save"
                     [] th[t].pc = "rt_set" -> "rt_save"
                     [] OTHER -> "st_save")
  /\ UNCHANGED <<now, rlVars, hasStorage, stored, hasCallback, clientKind,
                 configOk, storages, nExch, nCalls, okCalls>>

\* SetToken: tm.storage.SaveToken(token), tm.mu.Unlock(), return
SetTokenSave(t) ==
  /\ th[t].pc \in {"gt_save", "rt_save", "st_save"}
  /\ mu' = Unlock(mu)
  /\ stored' = IF hasStorage THEN SaveToken(stored, th[t].cur, TRUE) ELSE stored
  /\ th' = CASE th[t].pc = "gt_save" -> [th EXCEPT ![t].pc = "gt_cb", ![t].sok = TRUE]
             [] th[t].pc = "rt_save" ->
                  [RefreshTokenReturn(t, th[t].cur, "", "") EXCEPT ![t].sok = TRUE]
             [] OTHER -> [th EXCEPT ![t].pc = "done"]
  /\ UNCHANGED <<now, rlVars, token, hasStorage, hasCallback, clientKind,
                 configOk, storages, nExch, nCalls, okCalls>>

\* ClearToken: tm.mu.Lock(), tm.token = nil
ClearTokenLock(t) ==
  /\ CanStartManager(t)
  /\ CanLock(mu)
  /\ mu' = Lock(mu, t)
  /\ token' = NilToken
  /\ nCalls' = nCalls + 1
  /\ th' = [th EXCEPT ![t].pc = "ct_clear", ![t].op = "ClearToken",
                      ![t].tok0 = token, ![t].st0 = stored]
  /\ UNCHANGED <<now, rlVars, hasStorage, stored, hasCallback, clientKind,
                 configOk, storages, nExch, okCalls>>

\* ClearToken: tm.storage.ClearToken(), tm.mu.Unlock(), return; clr notes the
\* refreshes that were in flight when it completed
ClearTokenUnlock(t) ==
  /\ th[t].pc = "ct_clear"
  /\ mu' = Unlock(mu)
  /\ stored' = IF hasStorage THEN ClearStored(stored, TRUE) ELSE stored
  /\ th' = [u \in Threads |->
              IF u = t THEN [th[u] EXCEPT !.pc = "done"]
              ELSE IF InFlight(u) THEN [th[u] EXCEPT !.clr = TRUE]
              ELSE th[u]]
  /\ UNCHANGED <<now, rlVars, token, hasStorage, hasCallback, clientKind,
                 configOk, storages, nExch, nCalls, okCalls>>

\* the token endpoint answers with a full token or the request fails
ReceivesTokenOrFails(t) ==
  /\ th'[t].cause \in {"", "token request failed"}
  /\ th'[t].xok => /\ th'[t].cur.refresh # ""
                   /\ th'[t].cur.expiresAt = now + DefaultExpiresIn

\* a manager with a storage and a callback: nothing in memory and in the
\* storage, an expired token in the storage only, or in both
InitConc ==
  /\ now = 0
  /\ requests = <<>>
  /\ rlMutex = [w |-> NoThread, r |-> {}]
  /\ limit = YNABLimit
  /\ window = Hour
  /\ hist = <<>>
  /\ th = [t \in Threads |-> Idle]
  /\ stored \in {NilToken, OldToken}
  /\ token \in {NilToken, stored}
  /\ mu = [w |-> NoThread, r |-> {}]
  /\ hasStorage = TRUE
  /\ hasCallback = TRUE
  /\ clientKind = "OAuthClient"
  /\ configOk = TRUE
  /\ storages = <<>>
  /\ nExch = 0
  /\ nCalls = 0
  /\ okCalls = 0

NextConc ==
  \E t \in Threads :
    \/ CallGetToken(t)
    \/ CallRefreshToken(t)
    \/ SetTokenCall(t)
    \/ IsAuthenticated(t)
    \/ TokenRLock(t)
    \/ TokenRUnlock(t)
    \/ GetTokenLoad(t) /\ (th'[t].lok \/ stored.nil)
    \/ GetTokenHydrate(t)
    \/ GetTokenCheck(t)
    \/ ExchangeSend(t)
    \/ ExchangeReceive(t) /\ ReceivesTokenOrFails(t)
    \/ SetTokenLock(t)
    \/ SetTokenSave(t)
    \/ GetTokenCallback(t)
    \/ ClearTokenLock(t)
    \/ ClearTokenUnlock(t)
    \/ Return(t)

SpecConc == InitConc /\ [][NextConc]_vars

\* ------------------------------------- claims on the manager and clients
RetryingOps == {"OAuthClient.do", "RoundTrip"}

RecordingOps == {"OAuthClient.do", "client.do"}

\* a call to GetToken has returned after an exchange whose response parsed
\* into a token and whose save did not fail
RefreshedByGetToken(t) ==
  Returned(t, "GetToken") /\ th[t].nex >= 1 /\ th[t].xok /\ th[t].sok

\* C1: when GetToken finds the current token expired but refreshable, the
\* token endpoint answers with a fresh token and the save succeeds, then
\* exactly one exchange was sent, the new token is the in-memory token and the
\* stored token, a registered callback ran exactly once, with the new token
\* and after it was installed and saved, and GetToken returns the new token
\* without error.
C1_GetTokenRefreshes ==
  \A t \in Threads : RefreshedByGetToken(t) =>
    /\ th[t].nex = 1
    /\ th[t].err = ""
    /\ ~th[t].cur.nil
    /\ th[t].cur.access = "a" \o ToString(th[t].xid)
    /\ th[t].sent # ""
    /\ token = th[t].cur
    /\ hasStorage => stored = th[t].cur
    /\ hasCallback => (th[t].ncb = 1 /\ th[t].cbok /\ th[t].cbtok = th[t].cur)
    /\ ~hasCallback => th[t].ncb = 0

C1_Witness ==
  \E t \in Threads : RefreshedByGetToken(t) /\ hasStorage /\ hasCallback
                     /\ th[t].ncb = 1 /\ stored = th[t].cur

\* the first request of a retrying client call was answered with HTTP 401
AnsweredUnauthorized(t) ==
  /\ th[t].op \in RetryingOps
  /\ th[t].nreq >= 1
  /\ th[t].http = StatusUnauthorized

\* exactly one exchange after the first request, then exactly one more
\* request, carrying the refreshed access token; its result is the outcome
RefreshedAndRetried(t) ==
  /\ th[t].nex - th[t].nex0 = 1
  /\ th[t].nreq = 2
  /\ th[t].used[2] = th[t].rtok.access
  /\ th[t].used[2] # th[t].used[1]
  /\ th[t].out = th[t].second

\* the refresh attempted after the first request has failed
RefreshFailed(t) == th[t].rdone /\ th[t].rerr # ""

\* C2: every call of OAuthClient.do or RoundTrip whose first request is
\* answered with HTTP 401 sends exactly one exchange, re-sends the request
\* once with the new access token and returns the outcome of the retried
\* request (stated for the calls whose refresh did not fail).
C2_RefreshOnceRetryOnce ==
  \A t \in Threads :
    (th[t].pc = "done" /\ AnsweredUnauthorized(t) /\ ~RefreshFailed(t))
      => RefreshedAndRetried(t)

\* what the code does guarantee: when the first request fails with the 401
\* the client looks for (an API error with id "401" in OAuthClient.do, a
\* response with status 401 in RoundTrip), the refresh succeeds and the
\* refreshed token is valid when the client asks for the access token again,
\* the call refreshes once and retries once
RetriesWhenRefreshedTokenValid ==
  \A t \in Threads :
    ( /\ th[t].pc = "done"
      /\ th[t].op \in RetryingOps
      /\ th[t].nreq >= 1
      /\ WantsRefresh(th[t].op, th[t].first)
      /\ th[t].rdone /\ th[t].rerr = ""
      /\ th[t].rvalid )
    => RefreshedAndRetried(t)

\* the refresh attempted after a 401 has failed
RefreshFailedAfter401(t) ==
  /\ th[t].op \in RetryingOps
  /\ th[t].nreq >= 1
  /\ WantsRefresh(th[t].op, th[t].first)
  /\ th[t].rdone /\ th[t].rerr # ""

\* C3: when the refresh attempted after a 401 fails (the token has no refresh
\* token, or the exchange or the save fails) the request is not sent again and
\* the call returns the result of the first request; no call ever sends more
\* than two API requests.
C3_RefreshFailureSurfaces401 ==
  \A t \in Threads :
    /\ th[t].nreq <= 2
    /\ Len(th[t].used) = th[t].nreq
    /\ RefreshFailedAfter401(t) =>
         /\ th[t].pc = "done"
         /\ th[t].nreq = 1
         /\ th[t].out = th[t].first

C3_Witness ==
  \E t \in Threads :
    /\ RefreshFailedAfter401(t)
    /\ th[t].pc = "done"
    /\ th[t].rerr = "token cannot be refreshed"

\* the first request failed, and not with a 401: no answer at all, a body
\* that does not parse, an API error with another id, or (RoundTrip) a
\* response with another status
OtherFailure(o, e) ==
  \/ e.kind \in {"transport", "parse"}
  \/ e.kind = "api" /\ e.id # "401"
  \/ o = "RoundTrip" /\ e.kind = "resp" /\ e.status # StatusUnauthorized

\* C4: when the first request of OAuthClient.do or RoundTrip fails with
\* anything but a 401, no exchange is sent after it, the request is not sent
\* again and the first result is what the caller gets.
C4_OnlyUnauthorizedRetries ==
  \A t \in Threads :
    ( /\ th[t].op \in RetryingOps
      /\ th[t].nreq >= 1
      /\ OtherFailure(th[t].op, th[t].first) )
    => /\ th[t].pc = "done"
       /\ th[t].nex = th[t].nex0
       /\ ~th[t].rdone
       /\ th[t].nreq = 1
       /\ th[t].out = th[t].first

C4_Witness ==
  \E t \in Threads :
    /\ th[t].op = "OAuthClient.do" /\ th[t].pc = "done"
    /\ th[t].first.kind = "api" /\ th[t].first.id = "500"
    /\ CanRefresh(token)

\* C5: a GET/POST/PUT/PATCH/DELETE call that returns without error has
\* recorded exactly one request, a call that returns an error none; between
\* calls RequestsInWindow is the number of calls that returned without error
\* and RequestsRemaining the limit minus that number.
C5_RecordsSuccessesOnly ==
  /\ \A t \in Threads :
       (th[t].pc = "done" /\ th[t].op \in RecordingOps) =>
         Len(hist) = th[t].n + (IF th[t].out.kind = "nil" THEN 1 ELSE 0)
  /\ Quiescent =>
       /\ RequestsInWindowAt(requests, now, window) = okCalls
       /\ RequestsRemaining(RequestsInWindowAt(requests, now, window), limit)
            = limit - okCalls

C5_Witness ==
  /\ Quiescent
  /\ okCalls = 1
  /\ nCalls = MaxCalls
  /\ \E t \in Threads : th[t].pc = "done" /\ th[t].op \in RecordingOps
                        /\ th[t].out.kind # "nil" /\ th[t].n = 1

\* ------------------------------------------ claims on GetToken's exits
\* a token with a non-empty access token whose expiry, if set, is not
\* passed by time t plus the buffer
ValidAt(tok, t) ==
  tok.access # "" /\ (tok.expSet => t + Buffer <= tok.expiresAt)

\* the token GetToken examines: the in-memory one, else the one it loaded
Examined(t) ==
  IF ~th[t].tok0.nil THEN th[t].tok0
  ELSE IF th[t].lok THEN th[t].st0 ELSE NilToken

\* tm.token and the storage are as they were when the call started, apart
\* from a loaded token installed in memory
OnlyHydrated(t) ==
  /\ stored = th[t].st0
  /\ token = Examined(t)

\* C11: GetToken fails without an exchange (a) with 'no token available' when
\* there is no in-memory token and nothing was loaded (no storage, empty
\* storage or a failed load), (b) with ErrTokenExpired when the examined token
\* is not valid and has no refresh token; in both cases the in-memory token
\* and the storage are as before, apart from a loaded token being installed.
C11_FailsWithoutExchange ==
  \A t \in Threads : Returned(t, "GetToken") =>
    /\ (th[t].tok0.nil /\ ~th[t].lok) =>
         /\ th[t].err = "no token available"
         /\ th[t].cur.nil
         /\ th[t].nex = 0
         /\ OnlyHydrated(t)
         /\ token.nil
    /\ (~Examined(t).nil /\ ~ValidAt(Examined(t), th[t].tchk)
          /\ Examined(t).refresh = "") =>
         /\ th[t].err = "token expired"
         /\ th[t].cur.nil
         /\ th[t].nex = 0
         /\ OnlyHydrated(t)

C11_Witness ==
  \E t \in Threads :
    /\ Returned(t, "GetToken")
    /\ th[t].tok0.nil /\ th[t].lok
    /\ th[t].err = "token expired"
    /\ token = th[t].st0

\* the exchange GetToken sent did not produce a token
ExchangeFailedInGetToken(t) ==
  Returned(t, "GetToken") /\ th[t].nex >= 1 /\ ~th[t].xok

ExchangeFailures ==
  {"token request failed", "failed to parse token response",
   "oauth error response", "no access token in response"}

\* one exchange, the wrapped error, no callback
WrappedAfterOneExchange(t) ==
  /\ th[t].nex = 1
  /\ th[t].err = "failed to refresh token"
  /\ th[t].cause \in ExchangeFailures
  /\ th[t].cur.nil
  /\ th[t].ncb = 0
  /\ stored = th[t].st0

\* C12 as stated: when the exchange sent by GetToken fails, GetToken returns
\* the wrapped failure after exactly one exchange, the callback is not
\* invoked, and the in-memory token and the storage are what they were when
\* GetToken was called.
C12_Original ==
  \A t \in Threads : ExchangeFailedInGetToken(t) =>
    (WrappedAfterOneExchange(t) /\ token = th[t].tok0)

\* C12: when the exchange sent by GetToken fails, GetToken returns the
\* wrapped failure after exactly one exchange, the callback is not invoked,
\* the storage is unchanged and the in-memory token is the token GetToken
\* examined: the old in-memory token, or the token it loaded from storage
\* before the exchange.
C12_ExchangeFailureWrapped ==
  \A t \in Threads : ExchangeFailedInGetToken(t) =>
    (WrappedAfterOneExchange(t) /\ token = Examined(t))

C12_Witness ==
  \E t \in Threads :
    /\ ExchangeFailedInGetToken(t)
    /\ th[t].cause = "oauth error response"
    /\ ~th[t].tok0.nil /\ hasStorage /\ hasCallback

\* GetToken was called with an in-memory token that is valid when checked
ValidInMemory(t) ==
  Returned(t, "GetToken") /\ ~th[t].tok0.nil /\ ValidAt(th[t].tok0, th[t].tchk)

\* C13: when the in-memory token is valid, GetToken returns that token with
\* no error and nothing else happens: no exchange, no storage read or write,
\* no callback, the in-memory token is unchanged.
C13_ValidTokenReturned ==
  \A t \in Threads : ValidInMemory(t) =>
    /\ th[t].err = ""
    /\ th[t].cur = th[t].tok0
    /\ th[t].nex = 0
    /\ th[t].nld = 0
    /\ th[t].ncb = 0
    /\ token = th[t].tok0
    /\ stored = th[t].st0

C13_Witness ==
  \E t \in Threads :
    /\ ValidInMemory(t)
    /\ th[t].tok0.expSet /\ th[t].tok0.refresh # ""
    /\ th[t].tok0.expiresAt = th[t].tchk + Buffer
    /\ hasStorage /\ hasCallback /\ th[t].st0 # th[t].tok0

\* ------------------------------------- claims on ClearToken and IsAuthenticated
\* neither the manager nor the storage holds a token
Cleared == token.nil /\ stored.nil

\* some goroutine takes a SetToken step
SetTokenStep == \E t \in Threads : th'[t].op = "SetToken" /\ th[t].op # "SetToken"

\* C14: after ClearToken returns without error the manager holds no token and
\* the storage holds none; while that is so IsAuthenticated returns false and
\* GetToken fails with 'no token available' without an exchange; and it stays
\* so until SetToken is called.
C14_ClearedUntilSetToken ==
  /\ [](\A t \in Threads :
          /\ (Returned(t, "ClearToken") /\ th[t].err = "") => Cleared
          /\ (Returned(t, "IsAuthenticated") /\ Cleared) => th[t].val = 0
          /\ (Returned(t, "GetToken") /\ th[t].tok0.nil /\ th[t].st0.nil) =>
               /\ th[t].err = "no token available"
               /\ th[t].nex = 0
               /\ Cleared)
  /\ [][(Cleared /\ ~SetTokenStep) => Cleared']_vars

C14_Witness ==
  \E t \in Threads :
    /\ Returned(t, "ClearToken") /\ th[t].err = ""
    /\ hasStorage /\ ~th[t].tok0.nil /\ ~th[t].st0.nil
    /\ Cleared

\* C15: IsAuthenticated returns true exactly when an in-memory token exists
\* and is valid at the time of the call; it reads nothing from storage and
\* sends no exchange, changes neither the in-memory nor the stored token, and
\* so returns false while the token exists only in storage.
C15_IsAuthenticated ==
  \A t \in Threads : Returned(t, "IsAuthenticated") =>
    /\ th[t].val = 1 <=> (~th[t].tok0.nil /\ ValidAt(th[t].tok0, th[t].tchk))
    /\ th[t].val \in {0, 1}
    /\ th[t].nld = 0
    /\ th[t].nex = 0
    /\ token = th[t].tok0
    /\ stored = th[t].st0
    /\ (th[t].tok0.nil /\ ~th[t].st0.nil) => th[t].val = 0

C15_Witness ==
  \E t \in Threads :
    /\ Returned(t, "IsAuthenticated")
    /\ th[t].tok0.nil /\ ~th[t].st0.nil /\ ValidAt(th[t].st0, th[t].tchk)
    /\ th[t].val = 0

\* ------------------------------------------------ claims on the callback
\* C16: with a callback registered, every successful renewal invokes it once:
\* the refresh GetToken performs, an explicit RefreshToken, and the refresh
\* OAuthClient.do and RoundTrip perform after a 401.
C16_CallbackOnEveryRenewal ==
  \A t \in Threads : hasCallback =>
    /\ RefreshedByGetToken(t) => th[t].ncb = 1
    /\ (Returned(t, "RefreshToken") /\ th[t].err = "") => th[t].ncb = 1
    /\ (th[t].pc = "done" /\ th[t].op \in RetryingOps
          /\ th[t].rdone /\ th[t].rerr = "") => th[t].ncb >= 1

\* ------------------------------------------------- claims on Token
Bool(b) == IF b THEN 1 ELSE 0

\* C17 as stated: IsExpired is true exactly when expires_at is set and
\* now + 5 minutes >= expires_at; IsValid is a non-empty access token and
\* not IsExpired.
C17_Original ==
  \A t \in Threads :
    LET tok == th[t].cur
        expired == tok.expSet /\ th[t].tchk + Buffer >= tok.expiresAt
    IN  /\ Returned(t, "IsExpired") => th[t].val = Bool(expired)
        /\ Returned(t, "IsValid") => th[t].val = Bool(tok.access # "" /\ ~expired)

\* C17: IsExpired is true exactly when expires_at is set and
\* now + 5 minutes > expires_at (a token whose expires_at is exactly 5 minutes
\* from now is not yet expired), whatever expires_in is; a token with an
\* unset expires_at is never expired; IsValid is a non-empty access token and
\* not IsExpired.
C17_IsExpired ==
  \A t \in Threads :
    LET tok == th[t].cur
        expired == tok.expSet /\ th[t].tchk + Buffer > tok.expiresAt
    IN  /\ Returned(t, "IsExpired") =>
             /\ th[t].val = Bool(expired)
             /\ ~tok.expSet => th[t].val = 0
        /\ Returned(t, "IsValid") => th[t].val = Bool(tok.access # "" /\ ~expired)

C17_Witness ==
  \E t \in Threads :
    /\ Returned(t, "IsExpired")
    /\ th[t].cur.expSet /\ th[t].cur.expiresAt = th[t].tchk + Buffer
    /\ th[t].cur.expiresIn = DefaultExpiresIn
    /\ th[t].val = 0

\* ------------------------------------------- claims on exchangeToken
\* goroutine t has read a JSON body from the token endpoint
ParsedResponse(t) ==
  /\ th[t].op \in ExchangeOps
  /\ th[t].resp.kind = "json"

\* the step in which goroutine t reads the token endpoint's response
Receives(t) ==
  /\ th[t].pc \in {"rt_wait", "fc_wait"}
  /\ th'[t].pc # th[t].pc

\* C18: for a code exchange and a refresh alike, a body with a non-empty
\* error field yields an *ErrorResponse carrying that error code, even if an
\* access_token is present; otherwise an empty access_token is a failure;
\* otherwise a Token with the response's tokens is returned, and when
\* expires_in is omitted (0) it expires 7200 seconds after the exchange and is
\* valid right after it.
C18_ExchangeToken ==
  /\ [](\A t \in Threads :
          ParsedResponse(t) =>
            LET r == th[t].resp
            IN  /\ r.error # "" =>
                     /\ th[t].cause = "oauth error response"
                     /\ th[t].ecode = r.error
                     /\ ~th[t].xok /\ th[t].cur.nil
                /\ (r.error = "" /\ r.access = "") =>
                     /\ th[t].cause = "no access token in response"
                     /\ th[t].ecode = ""
                     /\ ~th[t].xok /\ th[t].cur.nil
                /\ (r.error = "" /\ r.access # "") =>
                     /\ th[t].xok /\ th[t].ecode = ""
                     /\ th[t].cause \in {"", "save failed"}
                     /\ th[t].cause = "" =>
                          /\ th[t].cur.access = r.access
                          /\ th[t].cur.refresh = r.refresh
                          /\ th[t].cur.expSet)
  /\ [][\A t \in Threads :
          (Receives(t) /\ ParsedResponse(t)' /\ th'[t].xok /\ th'[t].resp.expiresIn = 0) =>
            /\ th'[t].cur.expiresAt = now' + DefaultExpiresIn
            /\ IsValid(th'[t].cur, now')]_vars

C18_Witness ==
  \E t \in Threads :
    /\ ParsedResponse(t)
    /\ th[t].op = "AuthorizationCodeFlow.HandleCallback"
    /\ th[t].resp.error # "" /\ th[t].resp.access # ""
    /\ th[t].ecode = th[t].resp.error

\* ---------------------------------------------- claims on the flows
CodeFlow(t) == th[t].op = "AuthorizationCodeFlow.HandleCallback"

\* the callback of goroutine t carries no provider error, a non-empty code
\* and, when a state is expected, exactly that state
CallbackAccepted(t) ==
  LET u == th[t].cb
  IN  /\ u.ok /\ u.error = "" /\ u.code # ""
      /\ th[t].want # "" => u.state = th[t].want

StateDiffers(t) ==
  LET u == th[t].cb
  IN  /\ th[t].op \in FlowOps
      /\ u.ok
      /\ u.error # "" \/ u.code # "" \/ (u.frag = "parsed" /\ u.atoken # "")
      /\ th[t].want # ""
      /\ th[t].want \notin {u.state, u.fstate}

\* C20: HandleCallback of either flow, called with a non-empty expected state
\* that differs from the state of the callback URL, fails with the
\* state-mismatch error: never an *ErrorResponse, never a token.
C20_StateMismatchDistinct ==
  \A t \in Threads :
    (StateDiffers(t) /\ th[t].pc = "done") =>
      /\ th[t].out.kind = "state"
      /\ th[t].err = "state parameter mismatch"
      /\ th[t].cur.nil
      /\ th[t].nex = 0

ImplicitFlow(t) == th[t].op = "ImplicitGrantFlow.HandleCallback"

\* C21: ImplicitGrantFlow.HandleCallback never performs a network call; it
\* returns a token only if the fragment of the callback URL (not its query
\* string) has a non-empty access_token and the state check passes (no state
\* expected, or the callback's state equals it), and that token is the
\* fragment's access token and cannot be refreshed.
C21_ImplicitNoNetwork ==
  \A t \in Threads :
    ImplicitFlow(t) =>
      LET u == th[t].cb
          state == IF u.fstate # "" THEN u.fstate ELSE u.state
      IN  /\ th[t].nex = 0
          /\ th[t].pc \notin {"fc_exchange", "fc_wait"}
          /\ (th[t].pc = "done" /\ ~th[t].cur.nil) =>
               /\ th[t].err = ""
               /\ u.frag = "parsed" /\ u.atoken # ""
               /\ th[t].want # "" => state = th[t].want
               /\ th[t].cur.access = u.atoken
               /\ ~CanRefresh(th[t].cur)
          /\ (th[t].pc = "done" /\ th[t].cur.nil) => th[t].err # ""

C21_Witness ==
  \E t \in Threads :
    /\ ImplicitFlow(t) /\ th[t].pc = "done"
    /\ ~th[t].cur.nil /\ th[t].cur.access = "tok"
    /\ th[t].cb.frefresh # ""
    /\ th[t].want = "S"
    /\ th[t].nex = 0

\* ---------------------------------------- claims on ChainedStorage
\* the first member that failed in the call of goroutine t (0: none did)
FirstFailed(t) ==
  LET failed == {i \in Members : th[t].fail[i]}
  IN  IF failed = {} THEN 0 ELSE CHOOSE i \in failed : \A j \in failed : i <= j

Holders(sts) == {i \in Members : ~sts[i].nil}

\* C23: ChainedStorage.HasToken is true iff some member holds a token;
\* LoadToken returns the token of the first member, in chain order, that
\* holds one and loads it, and fails only when no member does; after a
\* ClearToken that returned nil no member holds a token.
C23_ChainReads ==
  \A t \in Threads :
    /\ Returned(t, "ChainedStorage.HasToken") =>
         th[t].val = Bool(Holders(storages) # {})
    /\ Returned(t, "ChainedStorage.LoadToken") =>
         LET able == {i \in Holders(storages) : ~th[t].fail[i]}
         IN  IF able = {} THEN th[t].err # "" /\ th[t].cur.nil
             ELSE /\ th[t].err = ""
                  /\ th[t].cur = storages[CHOOSE i \in able : \A j \in able : i <= j]
    /\ (Returned(t, "ChainedStorage.ClearToken") /\ th[t].val = 0) =>
         Holders(storages) = {}

C23_Witness ==
  \E t \in Threads :
    /\ Returned(t, "ChainedStorage.LoadToken")
    /\ storages[1].nil
    /\ ~storages[MaxMembers].nil
    /\ th[t].cur = storages[MaxMembers]
    /\ th[t].err = ""

\* ------------------------- claims on goroutines sharing a TokenManager
\* goroutine t waits for, or is about to send, its token-endpoint exchange
Exchanging(t) == th[t].pc \in {"gt_exchange", "gt_wait", "rt_exchange", "rt_wait"}

\* C24: no goroutine holds tm.mu while its token-endpoint exchange is in
\* progress: the read lock is held only for the snapshot and the write lock
\* only to install a token, so the lock is held by nobody who is exchanging
\* and other callers can take it meanwhile.
C24_NoLockDuringExchange ==
  \A t \in Threads :
    /\ Exchanging(t) => ~Holds(t)
    /\ t \in mu.r => th[t].pc \in {"gt_rlocked", "rt_rlocked"}
    /\ mu.w = t => th[t].pc \in {"gt_save", "rt_save", "st_save", "ct_clear"}

C24_Witness ==
  \E t, u \in Threads :
    /\ t # u
    /\ th[t].pc = "gt_wait"
    /\ mu.w = u /\ th[u].op = "SetToken"

\* the GetToken of goroutine t refreshed the token
Refreshed(t) == Returned(t, "GetToken") /\ th[t].err = "" /\ th[t].xok

\* C25: refreshes are not deduplicated: every GetToken that found the token
\* expired sends its own exchange, exactly one, with the old refresh token,
\* also when another caller has refreshed meanwhile; each successful one
\* installs its own result and invokes the callback with it, so the token in
\* memory is that of the last install.
C25_NoSingleFlight ==
  /\ [](\A t \in Threads :
          /\ (th[t].op = "GetToken" /\ th[t].nex > 0) =>
               /\ th[t].nex = 1
               /\ th[t].sent = OldToken.refresh
          /\ Refreshed(t) =>
               /\ th[t].nex = 1
               /\ th[t].ncb = 1 /\ th[t].cbtok = th[t].cur)
  /\ [][\A t \in Threads :
          (th[t].pc = "gt_set" /\ th'[t].pc = "gt_save") => token' = th[t].cur]_vars

C25_Witness ==
  \E t, u \in Threads :
    /\ t # u
    /\ Refreshed(t) /\ Refreshed(u)
    /\ th[t].sent = th[u].sent
    /\ th[t].cur # th[u].cur
    /\ nExch = 2
    /\ token = th[u].cur /\ stored = th[u].cur

\* every call made so far has returned and its result is still at hand
AllReturned ==
  /\ \A t \in Threads : th[t].pc \in {"idle", "done"}
  /\ nCalls = Cardinality({t \in Threads : th[t].pc = "done"})

\* C27: with a storage that never fails, once SetToken, GetToken and
\* RefreshToken calls, in any interleaving, have all returned, the token in
\* memory (if there is one) is the token in the storage; a GetToken that hydrates from the
\* storage never replaces a token installed by a concurrent SetToken with an
\* older stored one.
C27_MemoryMatchesStorage ==
  (/\ AllReturned
   /\ \A t \in Threads :
        th[t].pc = "done" => th[t].op \in {"SetToken", "GetToken", "RefreshToken"}
   /\ ~token.nil)
    => token = stored

\* C28: a ClearToken that completed while refreshes started by GetToken or
\* RefreshToken were in flight is not undone by them: once all calls have
\* returned the manager holds no token, nothing is stored, and
\* IsAuthenticated would be false.
C28_ClearNotUndone ==
  (/\ AllReturned
   /\ \E t \in Threads : th[t].pc = "done" /\ th[t].op = "ClearToken"
   /\ \E t \in Threads : th[t].clr
   /\ \A t \in Threads :
        th[t].pc = "done" =>
          \/ th[t].op = "ClearToken"
          \/ th[t].op \in {"GetToken", "RefreshToken"} /\ th[t].clr)
    => /\ token.nil
       /\ stored.nil
       /\ ~(~token.nil /\ IsValid(token, now))

\* ------------------------------------------- claims on waiting out the limit
\* goroutine t got its TimeUntilReset() result, within one clock instant,
\* while the tracker was at the limit; no request was recorded since, nobody
\* else is in a call, and the returned duration has passed
WaitedOut(t) ==
  /\ Returned(t, "TimeUntilReset")
  /\ th[t].tcall = th[t].tchk
  /\ limit >= 1
  /\ IsAtLimit(InWindow(hist, th[t].tchk, window), limit)
  /\ hist = th[t].buf
  /\ \A u \in Threads \ {t} : th[u].pc = "idle"
  /\ now >= th[t].tchk + th[t].val

\* C26: TimeUntilReset() is a sufficient wait: a caller at the limit who
\* waits for the returned duration while no request is recorded then finds
\* RequestsRemaining() >= 1 and IsAtLimit() false.
C26_SufficientWait ==
  \A t \in Threads :
    WaitedOut(t) =>
      /\ RemainingAt(now) >= 1
      /\ ~IsAtLimit(RequestsInWindowAt(requests, now, window), limit)

\* the same for a caller exactly at the limit, not beyond it
WaitSufficesAtExactLimit ==
  \A t \in Threads :
    (WaitedOut(t) /\ InWindow(hist, th[t].tchk, window) = limit) =>
      /\ RemainingAt(now) >= 1
      /\ ~IsAtLimit(RequestsInWindowAt(requests, now, window), limit)

\* ------------------------------------------ claims on persistence errors
\* the step of goroutine t in which the storage save inside SetToken fails:
\* a direct SetToken, or the commit of a refresh in GetToken or RefreshToken
DirectSaveFails(t) ==
  th[t].pc = "idle" /\ th'[t].op = "SetToken" /\ th'[t].err = "save failed"

CommitSaveFails(t) ==
  th[t].pc \in {"gt_set", "rt_set"} /\ th'[t].cause = "save failed"

C30_NoFailurePathCrashes ==
  \A t \in Threads :
    (th[t].pc = "done" /\ th[t].op \in {"OAuthClient.do", "client.do"})
      => th[t].out.kind \in {"nil", "api", "parse", "transport", "token"}

====
